---- MODULE Spec2Model ----
(***************************************************************************)
(* Model of the statistics decorator of the shogitest tournament manager:  *)
(* StatsWrapper (src/src/tournament/stats_wrapper.rs) with the Wdl and     *)
(* Penta tallies (src/src/stats.rs) and the SPRT termination gate          *)
(* (src/src/sprt.rs).  The wrapper is driven by a coordinator that calls   *)
(* next() to obtain tickets and match_complete() with results, in any      *)
(* arrival order.                                                          *)
(***************************************************************************)
EXTENDS Integers, Sequences, FiniteSets, TLC

(***************************************************************************)
(* Bounds of the model.                                                    *)
(***************************************************************************)
\* tickets the inner tournament issues before it is exhausted
MaxTickets == 4
\* calls of next() that are answered with None
MaxNoneNext == 1
\* series terms used by the fixed-point logarithm
LnTerms == 60

(***************************************************************************)
(* Option<Color>: the winner of a game.  Sente is the First player         *)
(* (engines[0] of the ticket), Gote the Second, NoColor is None (a draw).  *)
(***************************************************************************)
Sente == "Sente"
Gote == "Gote"
NoColor == "None"
Winner == {Sente, Gote, NoColor}

\* impl Not for Color, lifted over Option by result.map(|c| !c)
NotColor(c) ==
    CASE c = Sente -> Gote
      [] c = Gote -> Sente
      [] OTHER -> NoColor

(***************************************************************************)
(* stats.rs: Wdl                                                           *)
(***************************************************************************)
WdlDefault == [w |-> 0, d |-> 0, l |-> 0]
ONE_WIN == [w |-> 1, d |-> 0, l |-> 0]
ONE_DRAW == [w |-> 0, d |-> 1, l |-> 0]
ONE_LOSS == [w |-> 0, d |-> 0, l |-> 1]

WdlAdd(x, y) == [w |-> x.w + y.w, d |-> x.d + y.d, l |-> x.l + y.l]

WdlGameCount(x) == x.w + x.d + x.l

(***************************************************************************)
(* stats.rs: Penta                                                         *)
(***************************************************************************)
PentaDefault == [ll |-> 0, dl |-> 0, dd |-> 0, wl |-> 0, wd |-> 0, ww |-> 0]
ONE_WW == [ll |-> 0, dl |-> 0, dd |-> 0, wl |-> 0, wd |-> 0, ww |-> 1]
ONE_WD == [ll |-> 0, dl |-> 0, dd |-> 0, wl |-> 0, wd |-> 1, ww |-> 0]
ONE_WL == [ll |-> 0, dl |-> 0, dd |-> 0, wl |-> 1, wd |-> 0, ww |-> 0]
ONE_DD == [ll |-> 0, dl |-> 0, dd |-> 1, wl |-> 0, wd |-> 0, ww |-> 0]
ONE_DL == [ll |-> 0, dl |-> 1, dd |-> 0, wl |-> 0, wd |-> 0, ww |-> 0]
ONE_LL == [ll |-> 1, dl |-> 0, dd |-> 0, wl |-> 0, wd |-> 0, ww |-> 0]

PentaAdd(x, y) ==
    [ll |-> x.ll + y.ll, dl |-> x.dl + y.dl, dd |-> x.dd + y.dd,
     wl |-> x.wl + y.wl, wd |-> x.wd + y.wd, ww |-> x.ww + y.ww]

\* flip that forgets to swap dl and wd
flip_keeps_draws(p) ==
    [ll |-> p.ww, dl |-> p.dl, dd |-> p.dd, wl |-> p.wl, wd |-> p.wd, ww |-> p.ll]

\* flip that copies ww and wd over without moving ll and dl the other way
flip_one_way(p) ==
    [ll |-> p.ww, dl |-> p.wd, dd |-> p.dd, wl |-> p.wl, wd |-> p.wd, ww |-> p.ww]

flip(p) ==
    [ll |-> p.ww, dl |-> p.wd, dd |-> p.dd, wl |-> p.wl, wd |-> p.dl, ww |-> p.ll]

PentaGameCount(p) == p.ll + p.dl + p.dd + p.wl + p.wd + p.ww

\* Penta::pair_count, called by sprt.rs and stats_wrapper.rs: the number of
\* sibling pairs tallied, the sum of the buckets.
pair_count(p) == p.ll + p.dl + p.dd + p.wl + p.wd + p.ww

(***************************************************************************)
(* HashMap helpers: a map is a function on the set of its keys.            *)
(***************************************************************************)
EmptyMap == << >>

\* map.get(&key).cloned().unwrap_or_default()
GetOr(map, key, default) == IF key \in DOMAIN map THEN map[key] ELSE default

\* map.insert(key, value)
MapInsert(map, key, value) ==
    [k \in (DOMAIN map) \cup {key} |-> IF k = key THEN value ELSE map[k]]

\* map.remove(&key), the map that is left
MapRemove(map, key) == [k \in (DOMAIN map) \ {key} |-> map[k]]

VARIABLES
    engine_count,          \* engine_names.len()
    wdl_board,             \* HashMap<(usize, usize), Wdl>
    penta_board,           \* HashMap<(usize, usize), Penta>
    pending_pairing,       \* HashMap<u64, ((usize, usize), Option<Color>)>
    sprt,                  \* Option<SprtParameters>
    match_ticket_count,
    match_complete_count,
    should_terminate,
    inner_swaps,           \* inner tournament: whether sibling tickets swap the engines
    tickets,               \* inner tournament: engines of the tickets issued, ticket id = index - 1
    completed,             \* results passed to match_complete so far: id -> winner
    reordered,             \* some result arrived after the result of a later ticket
    panicked,              \* an assert! of the wrapper failed
    none_count,            \* calls of next() answered with None
    call,                  \* the last call made on the wrapper and what it returned
    sprt_call,             \* a direct call of SprtParameters::should_terminate: its inputs, then its result
    engine_time,           \* an EngineTime and the last call of step on it
    opening_book,          \* an OpeningBook: its openings and its cursor
    engine,                \* an Engine, the pipe of its child's stdout and the call in progress
    engine_drop,           \* an Engine being dropped
    main_call,             \* a run of main: its command line, how far it got, its exit code
    fn_call                \* a call of a function without state: its arguments, then its result

vars == <<engine_count, wdl_board, penta_board, pending_pairing, sprt,
          match_ticket_count, match_complete_count, should_terminate,
          inner_swaps, tickets, completed, reordered, panicked, none_count, call,
          sprt_call, engine_time, opening_book, engine, engine_drop, main_call,
          fn_call>>

\* the state of the tournament wrappers
wrapper_vars == <<engine_count, wdl_board, penta_board, pending_pairing, sprt,
                  match_ticket_count, match_complete_count, should_terminate,
                  inner_swaps, tickets, completed, reordered, panicked,
                  none_count, call, sprt_call>>

(***************************************************************************)
(* sprt.rs.  Floating point is modelled in fixed point: LLR values and the *)
(* LLR bounds are integers in units of 1/1000, alpha and beta are given in *)
(* percent.                                                                *)
(***************************************************************************)
FixOne == 1000 * 1000

\* x * y for fixed-point x, y in 0..FixOne, without leaving 32 bits
MulFix(x, y) ==
    LET xh == x \div 1000
        xl == x % 1000
        yh == y \div 1000
        yl == y % 1000
    IN  xh * yh + ((xh * yl + xl * yh + ((xl * yl) \div 1000)) \div 1000)

RECURSIVE AtanhSeries(_, _, _, _)
\* sum of z^(2k+1) / (2k+1) for k = from .. LnTerms - 1, zp = z^(2*from+1)
AtanhSeries(zp, z2, from, acc) ==
    IF from >= LnTerms \/ zp = 0 THEN acc
    ELSE AtanhSeries(MulFix(zp, z2), z2, from + 1, acc + (zp \div (2 * from + 1)))

\* f64::ln of the ratio num / den (num >= den > 0), in units of 1/1000
LnUp(num, den) ==
    LET z == ((num - den) * FixOne) \div (num + den)
        micro == 2 * AtanhSeries(z, MulFix(z, z), 0, 0)
    IN  (micro + 500) \div 1000

\* f64::ln of the ratio num / den (num, den > 0), in units of 1/1000
Ln(num, den) == IF num >= den THEN LnUp(num, den) ELSE 0 - LnUp(den, num)

\* SprtParameters::new; alpha and beta in percent.  t0 and t1 feed only llr().
SprtParameters_new(nelo0, nelo1, alpha, beta) ==
    [lower_bound |-> Ln(beta, 100 - alpha),
     upper_bound |-> Ln(100 - beta, alpha),
     nelo0 |-> nelo0,
     nelo1 |-> nelo1]

\* SprtParameters::llr_bounds
llr_bounds(self) == <<self.lower_bound, self.upper_bound>>

\* SprtParameters::llr is a floating-point fixed-point iteration (mle, itp)
\* that integers cannot reproduce: its value is an input of the model,
\* drawn from the values that lie below, on, between and above the bounds.
LlrValues(self) ==
    {self.lower_bound - 1, self.lower_bound, self.lower_bound + 1, 0,
     self.upper_bound - 1, self.upper_bound, self.upper_bound + 1}

\* The same for the tournament, where only the side of the bounds matters:
\* an LLR on the lower bound, between the bounds, on the upper bound.
LlrOutcomes(self) == {self.lower_bound, 0, self.upper_bound}

\* should_terminate with strict comparisons against the bounds
SprtParameters_should_terminate_strict(self, penta, llr_value) ==
    IF pair_count(penta) = 0
    THEN [ret |-> FALSE, llr |-> << >>]
    ELSE LET llr == llr_value
             lower_bound == llr_bounds(self)[1]
             upper_bound == llr_bounds(self)[2]
         IN  [ret |-> (llr < lower_bound \/ llr > upper_bound), llr |-> <<llr>>]

\* SprtParameters::should_terminate; llr_value is what self.llr(penta)
\* returns if it is called.  ret is the result, llr the LLR computed (none
\* on the early return).
SprtParameters_should_terminate(self, penta, llr_value) ==
    IF pair_count(penta) = 0
    THEN [ret |-> FALSE, llr |-> << >>]
    ELSE LET llr == llr_value
             lower_bound == llr_bounds(self)[1]
             upper_bound == llr_bounds(self)[2]
         IN  [ret |-> (llr <= lower_bound \/ llr >= upper_bound), llr |-> <<llr>>]

(***************************************************************************)
(* stats_wrapper.rs: StatsWrapper                                          *)
(***************************************************************************)
Engines == 0 .. (engine_count - 1)

\* match_id ^ 1
Sibling(match_id) == IF match_id % 2 = 0 THEN match_id + 1 ELSE match_id - 1

\* add_wdl with the encodings of a win and a loss exchanged
add_wdl_exchanged(board, key, result) ==
    LET wdl == CASE result = Sente -> ONE_LOSS
                 [] result = NoColor -> ONE_DRAW
                 [] result = Gote -> ONE_WIN
        old_value == GetOr(board, key, WdlDefault)
    IN  MapInsert(board, key, WdlAdd(old_value, wdl))

\* StatsWrapper::add_wdl
add_wdl(board, key, result) ==
    LET wdl == CASE result = Sente -> ONE_WIN
                 [] result = NoColor -> ONE_DRAW
                 [] result = Gote -> ONE_LOSS
        old_value == GetOr(board, key, WdlDefault)
    IN  MapInsert(board, key, WdlAdd(old_value, wdl))

\* the match with the arm (None, Some(Sente)) giving ONE_DL
PentaOfResults_asymmetric(result1, result2) ==
    CASE result1 = Sente /\ result2 = Sente -> ONE_WW
      [] result1 = Sente /\ result2 = NoColor -> ONE_WD
      [] result1 = NoColor /\ result2 = Sente -> ONE_DL
      [] result1 = NoColor /\ result2 = NoColor -> ONE_DD
      [] result1 = Gote /\ result2 = Sente -> ONE_WL
      [] result1 = Sente /\ result2 = Gote -> ONE_WL
      [] result1 = Gote /\ result2 = NoColor -> ONE_DL
      [] result1 = NoColor /\ result2 = Gote -> ONE_DL
      [] result1 = Gote /\ result2 = Gote -> ONE_LL

\* the match of add_penta_half on (result1, result2.map(|c| !c))
PentaOfResults(result1, result2) ==
    CASE result1 = Sente /\ result2 = Sente -> ONE_WW
      [] result1 = Sente /\ result2 = NoColor -> ONE_WD
      [] result1 = NoColor /\ result2 = Sente -> ONE_WD
      [] result1 = NoColor /\ result2 = NoColor -> ONE_DD
      [] result1 = Gote /\ result2 = Sente -> ONE_WL
      [] result1 = Sente /\ result2 = Gote -> ONE_WL
      [] result1 = Gote /\ result2 = NoColor -> ONE_DL
      [] result1 = NoColor /\ result2 = Gote -> ONE_DL
      [] result1 = Gote /\ result2 = Gote -> ONE_LL

\* insert that overwrites the entry instead of adding to it
PentaInsert_overwrite(board, key, penta) == MapInsert(board, key, penta)

\* the closure insert of add_penta_half
PentaInsert(board, key, penta) ==
    LET old_value == GetOr(board, key, PentaDefault)
    IN  MapInsert(board, key, PentaAdd(old_value, penta))

\* add_penta_half that does not re-orient the result of the sibling
add_penta_half_unoriented(pending, board, match_id, a, b, result1) ==
    LET sibling == Sibling(match_id)
    IN  IF sibling \in DOMAIN pending
        THEN LET b2 == pending[sibling].engines[1]
                 a2 == pending[sibling].engines[2]
                 result2 == pending[sibling].result
                 penta == PentaOfResults(result1, result2)
             IN  IF a = a2 /\ b = b2
                 THEN [pending |-> MapRemove(pending, sibling),
                       penta |-> PentaInsert(PentaInsert(board, <<a, b>>, penta),
                                             <<b, a>>, flip(penta)),
                       panic |-> FALSE]
                 ELSE [pending |-> MapRemove(pending, sibling),
                       penta |-> board,
                       panic |-> TRUE]
        ELSE [pending |-> MapInsert(pending, match_id,
                                    [engines |-> <<a, b>>, result |-> result1]),
              penta |-> board,
              panic |-> FALSE]

\* add_penta_half without its assert!: the bucket is added whatever pair the
\* sibling was recorded with
add_penta_half_unchecked(pending, board, match_id, a, b, result1) ==
    LET sibling == Sibling(match_id)
    IN  IF sibling \in DOMAIN pending
        THEN LET result2 == pending[sibling].result
                 penta == PentaOfResults(result1, NotColor(result2))
             IN  [pending |-> MapRemove(pending, sibling),
                  penta |-> PentaInsert(PentaInsert(board, <<a, b>>, penta),
                                        <<b, a>>, flip(penta)),
                  panic |-> FALSE]
        ELSE [pending |-> MapInsert(pending, match_id,
                                    [engines |-> <<a, b>>, result |-> result1]),
              penta |-> board,
              panic |-> FALSE]

\* add_penta_half that reads the sibling with get instead of remove: the
\* sibling stays in the pending map
add_penta_half_keeps_sibling(pending, board, match_id, a, b, result1) ==
    LET sibling == Sibling(match_id)
    IN  IF sibling \in DOMAIN pending
        THEN LET b2 == pending[sibling].engines[1]
                 a2 == pending[sibling].engines[2]
                 result2 == pending[sibling].result
                 penta == PentaOfResults(result1, NotColor(result2))
             IN  IF a = a2 /\ b = b2
                 THEN [pending |-> pending,
                       penta |-> PentaInsert(PentaInsert(board, <<a, b>>, penta),
                                             <<b, a>>, flip(penta)),
                       panic |-> FALSE]
                 ELSE [pending |-> pending,
                       penta |-> board,
                       panic |-> TRUE]
        ELSE [pending |-> MapInsert(pending, match_id,
                                    [engines |-> <<a, b>>, result |-> result1]),
              penta |-> board,
              panic |-> FALSE]

\* StatsWrapper::add_penta_half: the pending map and the penta board it
\* leaves, and whether its assert! failed (the board is then untouched and
\* the sibling is already removed from the pending map).
add_penta_half(pending, board, match_id, a, b, result1) ==
    LET sibling == Sibling(match_id)
    IN  IF sibling \in DOMAIN pending
        THEN LET b2 == pending[sibling].engines[1]
                 a2 == pending[sibling].engines[2]
                 result2 == pending[sibling].result
                 penta == PentaOfResults(result1, NotColor(result2))
             IN  IF a = a2 /\ b = b2
                 THEN [pending |-> MapRemove(pending, sibling),
                       penta |-> PentaInsert(PentaInsert(board, <<a, b>>, penta),
                                             <<b, a>>, flip(penta)),
                       panic |-> FALSE]
                 ELSE [pending |-> MapRemove(pending, sibling),
                       penta |-> board,
                       panic |-> TRUE]
        ELSE [pending |-> MapInsert(pending, match_id,
                                    [engines |-> <<a, b>>, result |-> result1]),
              penta |-> board,
              panic |-> FALSE]

\* add_result that adds the same encoding to both sides of the WDL board
add_result_unmirrored(wdl, pending, penta, match_id, a, b, result) ==
    LET wdl1 == add_wdl(wdl, <<a, b>>, result)
        wdl2 == add_wdl(wdl1, <<b, a>>, result)
        half == add_penta_half(pending, penta, match_id, a, b, result)
    IN  [wdl |-> wdl2, pending |-> half.pending, penta |-> half.penta,
         panic |-> half.panic]

\* StatsWrapper::add_result: the three boards after the call
add_result(wdl, pending, penta, match_id, a, b, result) ==
    LET wdl1 == add_wdl(wdl, <<a, b>>, result)
        wdl2 == add_wdl(wdl1, <<b, a>>, NotColor(result))
        half == add_penta_half(pending, penta, match_id, a, b, result)
    IN  [wdl |-> wdl2, pending |-> half.pending, penta |-> half.penta,
         panic |-> half.panic]

RECURSIVE PentaSum(_, _, _)
\* (0..n).map(|i| (engine_id, i)).map(get or default).sum(), from i on
PentaSum(board, engine_id, i) ==
    IF i >= engine_count THEN PentaDefault
    ELSE PentaAdd(GetOr(board, <<engine_id, i>>, PentaDefault),
                  PentaSum(board, engine_id, i + 1))

\* StatsWrapper::all_penta_for
all_penta_for(board, engine_id) == PentaSum(board, engine_id, 0)

\* next_should_terminate that ignores the flag
next_should_terminate_never == FALSE

\* StatsWrapper::next_should_terminate
next_should_terminate == should_terminate

\* match_complete that asks the SPRT again after it has said stop
StatsWrapper_match_complete_unguarded(board, llr_value) ==
    IF sprt # << >>
    THEN LET penta == all_penta_for(board, 1)
         IN  SprtParameters_should_terminate(sprt[1], penta, llr_value).ret
    ELSE should_terminate

\* StatsWrapper::match_complete (the private method): the new value of
\* should_terminate, given the penta board add_result has left
StatsWrapper_match_complete(board, llr_value) ==
    IF sprt # << >> /\ ~should_terminate
    THEN LET penta == all_penta_for(board, 1)
         IN  SprtParameters_should_terminate(sprt[1], penta, llr_value).ret
    ELSE should_terminate

\* match_completete_should_terminate that does not compare the counters
match_completete_should_terminate_at_once(terminate, ticket_count, complete_count) ==
    terminate

\* StatsWrapper::match_completete_should_terminate
match_completete_should_terminate(terminate, ticket_count, complete_count) ==
    terminate /\ ticket_count = complete_count

(***************************************************************************)
(* The inner tournament (Box<dyn Tournament>).  Tickets are numbered in    *)
(* the order they are issued; ticket 2k is played by the k-th engine pair  *)
(* of the round robin, in lexicographic order.                             *)
(***************************************************************************)
EnginePairs == {p \in Engines \X Engines : p[1] < p[2]}

PairLess(p, q) == p[1] < q[1] \/ (p[1] = q[1] /\ p[2] < q[2])

RoundRobinPair(k) ==
    CHOOSE p \in EnginePairs :
        Cardinality({q \in EnginePairs : PairLess(q, p)}) = k % Cardinality(EnginePairs)

Swap(p) == <<p[2], p[1]>>

\* The engines of the next ticket.  An odd ticket of the round robin swaps
\* the engines of its sibling; an inner tournament that does not is what
\* the assert! of add_penta_half guards against.
InnerEngines(id) ==
    IF id % 2 = 0 THEN RoundRobinPair(id \div 2)
    ELSE IF inner_swaps THEN Swap(tickets[id]) ELSE tickets[id]

TournamentState == {"Continue", "Stop"}

\* ids of the tickets issued and not yet passed to match_complete
InFlight == {id \in 0 .. (Len(tickets) - 1) : id \notin DOMAIN completed}

\* every odd ticket issued so far swaps the engines of its sibling
WellPaired ==
    \A id \in 0 .. (Len(tickets) - 1) :
        id % 2 = 1 => tickets[id + 1] = Swap(tickets[id])

\* the SPRT parameters of the tournament: --sprt nelo0 nelo1 alpha beta
SprtInputs == {[nelo0 |-> 0, nelo1 |-> 10, alpha |-> 5, beta |-> 5]}

Init ==
    /\ engine_count \in {2, 3}
    /\ sprt \in (IF engine_count = 2
                THEN {<<SprtParameters_new(i.nelo0, i.nelo1, i.alpha, i.beta)>> : i \in SprtInputs}
                ELSE {<< >>})
    /\ wdl_board = EmptyMap
    /\ penta_board = EmptyMap
    /\ pending_pairing = EmptyMap
    /\ match_ticket_count = 0
    /\ match_complete_count = 0
    /\ should_terminate = FALSE
    /\ inner_swaps \in BOOLEAN
    /\ tickets = << >>
    /\ completed = EmptyMap
    /\ reordered = FALSE
    /\ panicked = FALSE
    /\ none_count = 0
    /\ call = [op |-> "new"]
    /\ sprt_call = << >>
    /\ engine_time = << >>
    /\ opening_book = << >>
    /\ engine = << >>
    /\ engine_drop = << >>
    /\ main_call = << >>
    /\ fn_call = << >>

\* Tournament::next for StatsWrapper
Tournament_next ==
    /\ ~panicked
    /\ IF next_should_terminate
       THEN /\ none_count < MaxNoneNext
            /\ none_count' = none_count + 1
            /\ call' = [op |-> "next", ret |-> << >>, inner_called |-> FALSE]
            /\ UNCHANGED <<match_ticket_count, tickets>>
       ELSE /\ match_ticket_count' = match_ticket_count + 1
            /\ IF Len(tickets) < MaxTickets
               THEN LET e == InnerEngines(Len(tickets))
                    IN  /\ tickets' = Append(tickets, e)
                        /\ call' = [op |-> "next",
                                    ret |-> <<[id |-> Len(tickets), engines |-> e]>>,
                                    inner_called |-> TRUE]
                        /\ UNCHANGED none_count
               ELSE /\ none_count < MaxNoneNext
                    /\ none_count' = none_count + 1
                    /\ call' = [op |-> "next", ret |-> << >>, inner_called |-> TRUE]
                    /\ UNCHANGED tickets
    /\ UNCHANGED <<engine_count, wdl_board, penta_board, pending_pairing, sprt,
                   match_complete_count, should_terminate, inner_swaps,
                   completed, reordered, panicked, sprt_call>>
    /\ UNCHANGED <<engine_time, opening_book, engine, engine_drop, main_call,
                   fn_call>>

\* match_complete that returns Continue unless the wrapper is done, whatever
\* the inner tournament returned
match_complete_state_continues(stop, state) ==
    IF stop THEN "Stop" ELSE "Continue"

\* what match_complete returns: Stop when the wrapper is done, else the
\* state the inner tournament returned
match_complete_state(stop, state) ==
    IF stop THEN "Stop" ELSE state

\* Tournament::match_complete for StatsWrapper, for the result of an
\* in-flight ticket; inner_result is the result handed to the inner
\* tournament and inner_state is what the inner tournament returns
Tournament_match_complete ==
    /\ ~panicked
    /\ \E id \in InFlight, winner \in Winner, inner_state \in TournamentState :
         \E llr_value \in (IF sprt # << >> /\ ~should_terminate
                              THEN LlrOutcomes(sprt[1]) ELSE {0}) :
           LET e == tickets[id + 1]
               r == add_result(wdl_board, pending_pairing, penta_board,
                               id, e[1], e[2], winner)
               m == StatsWrapper_match_complete(r.penta, llr_value)
           IN  /\ wdl_board' = r.wdl
               /\ pending_pairing' = r.pending
               /\ penta_board' = r.penta
               /\ IF r.panic
                  THEN /\ panicked' = TRUE
                       /\ call' = [op |-> "match_complete", ret |-> "panic",
                                   inner_result |-> << >>,
                                   inner_state |-> << >>,
                                   terminating |-> should_terminate]
                       /\ UNCHANGED <<match_complete_count, should_terminate,
                                      completed, reordered>>
                  ELSE /\ match_complete_count' = match_complete_count + 1
                       /\ should_terminate' = m
                       /\ completed' = MapInsert(completed, id, winner)
                       /\ reordered' = (reordered \/ \E j \in DOMAIN completed : j > id)
                       /\ call' = [op |-> "match_complete",
                                   ret |-> match_complete_state(
                                               match_completete_should_terminate(
                                                   m, match_ticket_count,
                                                   match_complete_count + 1),
                                               inner_state),
                                   inner_result |-> <<[id |-> id, engines |-> e,
                                                       winner |-> winner]>>,
                                   inner_state |-> <<inner_state>>,
                                   terminating |-> should_terminate]
                       /\ UNCHANGED panicked
    /\ UNCHANGED <<engine_count, sprt, match_ticket_count, inner_swaps, tickets,
                   none_count, sprt_call>>
    /\ UNCHANGED <<engine_time, opening_book, engine, engine_drop, main_call,
                   fn_call>>

Next == Tournament_next \/ Tournament_match_complete

Spec == Init /\ [][Next]_vars

(***************************************************************************)
(* SprtParameters on its own: parameters, a Penta and the value of the LLR *)
(* are drawn from bounded sets and should_terminate is applied to them.    *)
(***************************************************************************)
\* largest count of one Penta bucket
MaxBucket == 1

PentaInputs ==
    [ll : 0 .. MaxBucket, dl : 0 .. MaxBucket, dd : 0 .. MaxBucket,
     wl : 0 .. MaxBucket, wd : 0 .. MaxBucket, ww : 0 .. MaxBucket]

\* alpha and beta, in percent
SprtParamInputs ==
    {[nelo0 |-> 0, nelo1 |-> 10, alpha |-> 5, beta |-> 5],
     [nelo0 |-> 0, nelo1 |-> 10, alpha |-> 5, beta |-> 10],
     [nelo0 |-> -5, nelo1 |-> 0, alpha |-> 10, beta |-> 5]}

SprtInit ==
    /\ engine_count = 2
    /\ sprt = << >>
    /\ wdl_board = EmptyMap
    /\ penta_board = EmptyMap
    /\ pending_pairing = EmptyMap
    /\ match_ticket_count = 0
    /\ match_complete_count = 0
    /\ should_terminate = FALSE
    /\ inner_swaps = TRUE
    /\ tickets = << >>
    /\ completed = EmptyMap
    /\ reordered = FALSE
    /\ panicked = FALSE
    /\ none_count = 0
    /\ call = [op |-> "new"]
    /\ engine_time = << >>
    /\ opening_book = << >>
    /\ engine = << >>
    /\ engine_drop = << >>
    /\ main_call = << >>
    /\ fn_call = << >>
    /\ \E i \in SprtParamInputs, penta \in PentaInputs :
         \E llr_value \in LlrValues(SprtParameters_new(i.nelo0, i.nelo1, i.alpha, i.beta)) :
           sprt_call = [done |-> FALSE, nelo0 |-> i.nelo0, nelo1 |-> i.nelo1,
                        alpha |-> i.alpha, beta |-> i.beta,
                        penta |-> penta, llr_value |-> llr_value]

\* SprtParameters::new(nelo0, nelo1, alpha, beta).should_terminate(penta)
SprtCheck ==
    /\ ~sprt_call.done
    /\ LET self == SprtParameters_new(sprt_call.nelo0, sprt_call.nelo1,
                                      sprt_call.alpha, sprt_call.beta)
           r == SprtParameters_should_terminate(self, sprt_call.penta,
                                                sprt_call.llr_value)
       IN  sprt_call' = [done |-> TRUE, alpha |-> sprt_call.alpha,
                         beta |-> sprt_call.beta, self |-> self,
                         penta |-> sprt_call.penta,
                         llr_value |-> sprt_call.llr_value,
                         llr |-> r.llr, ret |-> r.ret]
    /\ UNCHANGED <<engine_count, wdl_board, penta_board, pending_pairing,
                   sprt, match_ticket_count, match_complete_count,
                   should_terminate, inner_swaps, tickets, completed, reordered,
                   panicked, none_count, call>>
    /\ UNCHANGED <<engine_time, opening_book, engine, engine_drop, main_call,
                   fn_call>>

SprtNext == SprtCheck

SprtSpec == SprtInit /\ [][SprtNext]_vars

(***************************************************************************)
(* Definitions shared by the properties.                                   *)
(***************************************************************************)
\* the ids of the results posted, and the sibling pairs posted in full
CompletedIds == DOMAIN completed

\* games completed between a and b, in either colour assignment
GamesBetween(a, b) ==
    {id \in CompletedIds : tickets[id + 1] \in {<<a, b>>, <<b, a>>}}

\* games completed between a and b that a won
GamesWonBy(a, b) ==
    {id \in GamesBetween(a, b) :
        \/ tickets[id + 1] = <<a, b>> /\ completed[id] = Sente
        \/ tickets[id + 1] = <<b, a>> /\ completed[id] = Gote}

\* completed games that engine a played
GamesOf(a) == {id \in CompletedIds : a \in {tickets[id + 1][1], tickets[id + 1][2]}}

\* completed games of a whose sibling is completed too
PairedGamesOf(a) == {id \in GamesOf(a) : Sibling(id) \in CompletedIds}

\* pending_pairing entries whose engines include a
PendingOf(a) ==
    {id \in DOMAIN pending_pairing :
        a \in {pending_pairing[id].engines[1], pending_pairing[id].engines[2]}}

\* what engine a scored in game id: "w", "d" or "l"
ScoreOf(a, engines, winner) ==
    CASE winner = NoColor -> "d"
      [] winner = Sente -> IF engines[1] = a THEN "w" ELSE "l"
      [] winner = Gote -> IF engines[2] = a THEN "w" ELSE "l"

\* the bucket of the table for the two scores of one engine
BucketOf(s1, s2) ==
    LET n(x) == (IF s1 = x THEN 1 ELSE 0) + (IF s2 = x THEN 1 ELSE 0)
    IN  CASE n("w") = 2 -> ONE_WW
          [] n("w") = 1 /\ n("d") = 1 -> ONE_WD
          [] n("d") = 2 -> ONE_DD
          [] n("w") = 1 /\ n("l") = 1 -> ONE_WL
          [] n("l") = 1 /\ n("d") = 1 -> ONE_DL
          [] n("l") = 2 -> ONE_LL

\* a step in which match_complete took a result and returned
CompleteStep == DOMAIN completed' # DOMAIN completed

\* the id of the result taken by that step
StepId == CHOOSE id \in DOMAIN completed' : id \notin DOMAIN completed

\* a step that is a call of next()
NextStep == none_count' # none_count \/ tickets' # tickets

RECURSIVE PostInOrder(_, _, _)
\* the pending map and penta board after the completed results with ids
\* id, id + 1, ... have been passed to add_penta_half in the order of their ids
PostInOrder(id, pending, board) ==
    IF id >= Len(tickets) THEN [pending |-> pending, penta |-> board]
    ELSE IF id \notin CompletedIds THEN PostInOrder(id + 1, pending, board)
    ELSE LET half == add_penta_half(pending, board, id, tickets[id + 1][1],
                                    tickets[id + 1][2], completed[id])
         IN  PostInOrder(id + 1, half.pending, half.penta)

InOrderPentaBoard == PostInOrder(0, EmptyMap, EmptyMap).penta

(***************************************************************************)
(* Properties of StatsWrapper, checked under Spec.                         *)
(***************************************************************************)

\* C1: for a set of results in which every ticket id is posted once and
\* siblings are played by the same two engines in swapped order, the penta
\* board does not depend on the order of arrival: whatever the order was, it
\* is the board that posting the same results in the order of their ids gives.
C1_ArrivalOrderIrrelevant ==
    (~panicked /\ WellPaired) => penta_board = InOrderPentaBoard

\* all four tickets were posted, not in the order of their ids, and two
\* sibling pairs were tallied
C1_Witness ==
    /\ ~panicked /\ WellPaired /\ reordered
    /\ CompletedIds = 0 .. 3
    /\ PentaGameCount(all_penta_for(penta_board, 0)) = 2

\* C2: when the second result of a sibling pair arrives, with engines (a, b),
\* exactly one bucket is added to penta_board[(a, b)]: the one the table gives
\* for the scores of a in the two games (two drawn games add DD).
C2_BucketOfPair ==
    [][(CompleteStep /\ Sibling(StepId) \in CompletedIds) =>
        LET id == StepId
            e == tickets[id + 1]
            a == e[1]
            b == e[2]
            s1 == ScoreOf(a, e, completed'[id])
            s2 == ScoreOf(a, tickets[Sibling(id) + 1], completed[Sibling(id)])
        IN  GetOr(penta_board', <<a, b>>, PentaDefault)
              = PentaAdd(GetOr(penta_board, <<a, b>>, PentaDefault), BucketOf(s1, s2))]_vars

\* tickets 0 and 1 were both drawn: wdl[(0,1)] = {0,2,0}, penta[(0,1)] = {dd:1}
C2_Witness ==
    /\ CompletedIds = {0, 1}
    /\ completed[0] = NoColor /\ completed[1] = NoColor
    /\ GetOr(wdl_board, <<0, 1>>, WdlDefault) = [w |-> 0, d |-> 2, l |-> 0]
    /\ GetOr(penta_board, <<0, 1>>, PentaDefault) = ONE_DD

\* C3: the WDL board is mirror-symmetric: what (a, b) counts as won, (b, a)
\* counts as lost, and both count the same draws.
C3_WdlMirror ==
    \A a \in Engines, b \in Engines :
        a # b =>
            LET x == GetOr(wdl_board, <<a, b>>, WdlDefault)
                y == GetOr(wdl_board, <<b, a>>, WdlDefault)
            IN  x.w = y.l /\ x.l = y.w /\ x.d = y.d

\* engine 0 has won, drawn and lost against engine 1
C3_Witness ==
    /\ <<0, 1>> \in DOMAIN wdl_board
    /\ wdl_board[<<0, 1>>].w = 2 /\ wdl_board[<<0, 1>>].d = 1 /\ wdl_board[<<0, 1>>].l = 1
    /\ wdl_board[<<1, 0>>].l = 2

\* C4: wdl_board[(a, b)] counts the games completed between a and b in either
\* colour assignment, and its w counts those of them that a won.
C4_WdlCounts ==
    ~panicked =>
        \A a \in Engines, b \in Engines :
            a # b =>
                LET x == GetOr(wdl_board, <<a, b>>, WdlDefault)
                IN  /\ x.w + x.d + x.l = Cardinality(GamesBetween(a, b))
                    /\ x.w = Cardinality(GamesWonBy(a, b))

\* engine 1 won one game as First and one as Second against engine 0
C4_Witness ==
    /\ ~panicked
    /\ \E i \in CompletedIds, j \in CompletedIds :
          /\ tickets[i + 1] = <<1, 0>> /\ completed[i] = Sente
          /\ tickets[j + 1] = <<0, 1>> /\ completed[j] = Gote
    /\ GetOr(wdl_board, <<1, 0>>, WdlDefault).w = 2
    /\ GetOr(wdl_board, <<0, 1>>, WdlDefault).l = 2

\* C5: penta_board[(a, b)] is the flip of penta_board[(b, a)] (ll and ww
\* swapped, dl and wd swapped, dd and wl kept), a missing entry counting as
\* the zero Penta.
C5_PentaFlip ==
    \A a \in Engines, b \in Engines :
        a # b =>
            LET x == GetOr(penta_board, <<a, b>>, PentaDefault)
                y == GetOr(penta_board, <<b, a>>, PentaDefault)
            IN  /\ x.ll = y.ww /\ x.dl = y.wd /\ x.dd = y.dd
                /\ x.wl = y.wl /\ x.wd = y.dl /\ x.ww = y.ll

\* a pair won twice by engine 0 and a pair it won and drew
C5_Witness ==
    /\ <<0, 1>> \in DOMAIN penta_board
    /\ penta_board[<<0, 1>>].ww = 1 /\ penta_board[<<0, 1>>].wd = 1
    /\ penta_board[<<1, 0>>].ll = 1 /\ penta_board[<<1, 0>>].dl = 1

\* C6, as stated: for every engine a the pair counts of penta_board[(a, b)],
\* summed over b, are half the number of games a has completed.
C6_PairsAreHalfTheGames ==
    (~panicked /\ WellPaired) =>
        \A a \in Engines :
            PentaGameCount(all_penta_for(penta_board, a)) = Cardinality(GamesOf(a)) \div 2

\* C6, amended: every completed sibling pair contributes exactly one bucket,
\* and for every engine a the summed pair counts are half the number of its
\* completed games that are not waiting for their sibling in pending_pairing.
C6_PairsAreHalfThePairedGames ==
    ~panicked =>
        \A a \in Engines :
            /\ 2 * PentaGameCount(all_penta_for(penta_board, a))
                 = Cardinality(PairedGamesOf(a))
            /\ Cardinality(PairedGamesOf(a))
                 = Cardinality(GamesOf(a)) - Cardinality(PendingOf(a))

\* engine 0 has three results: one sibling pair tallied, one result pending
C6_Witness ==
    /\ ~panicked
    /\ Cardinality(GamesOf(0)) = 3
    /\ Cardinality(PendingOf(0)) = 1
    /\ PentaGameCount(all_penta_for(penta_board, 0)) = 1

\* C7: once should_terminate is set, a call of next() returns None, does not
\* ask the inner tournament for a ticket and leaves match_ticket_count alone.
C7_NextAfterStop ==
    [][(should_terminate /\ NextStep) =>
        /\ call'.op = "next"
        /\ call'.ret = << >>
        /\ call'.inner_called = FALSE
        /\ tickets' = tickets
        /\ match_ticket_count' = match_ticket_count]_vars

\* next() was called with should_terminate set while the inner tournament
\* still had tickets to issue
C7_Witness ==
    /\ should_terminate
    /\ call.op = "next" /\ call.ret = << >> /\ ~call.inner_called
    /\ Len(tickets) < MaxTickets

\* C8: while should_terminate is set and another ticket is still in flight,
\* match_complete returns what the inner tournament returned, and the result
\* is added to the WDL board and to the pairing (pending or penta board).
C8_InFlightFinish ==
    [][(CompleteStep /\ should_terminate' /\ InFlight' # {}) =>
        LET id == StepId
            e == tickets[id + 1]
        IN  /\ call'.ret = call'.inner_state[1]
            /\ WdlGameCount(GetOr(wdl_board', e, WdlDefault))
                 = WdlGameCount(GetOr(wdl_board, e, WdlDefault)) + 1
            /\ IF Sibling(id) \in CompletedIds
               THEN PentaGameCount(GetOr(penta_board', e, PentaDefault))
                      = PentaGameCount(GetOr(penta_board, e, PentaDefault)) + 1
               ELSE id \in DOMAIN pending_pairing']_vars

\* a result arrived when should_terminate was already set, another ticket is
\* still in flight, and the call returned the Continue of the inner tournament
C8_Witness ==
    /\ should_terminate /\ InFlight # {}
    /\ call.op = "match_complete" /\ call.terminating
    /\ call.ret = "Continue" /\ call.inner_state = <<"Continue">>
    /\ Cardinality(CompletedIds) = 3

\* C9: should_terminate is monotone: once true it stays true, whatever
\* results follow.
C9_StopIsMonotone == [][should_terminate => should_terminate']_vars

\* a result was taken when should_terminate was already set, and it is still set
C9_Witness ==
    /\ should_terminate
    /\ call.op = "match_complete" /\ call.terminating /\ call.ret # "panic"

(***************************************************************************)
(* Properties of SprtParameters, checked under SprtSpec.                   *)
(***************************************************************************)

\* C10: should_terminate(penta) is true exactly when the Penta holds at least
\* one pair and the LLR is <= lower_bound = ln(beta / (1 - alpha)) or
\* >= upper_bound = ln((1 - beta) / alpha); with no pair it returns false and
\* the LLR is not computed.  (ln is 2.944 for alpha = beta = 0.05.)
C10_SprtGate ==
    sprt_call.done =>
        LET c == sprt_call
            pairs == c.penta.ll + c.penta.dl + c.penta.dd + c.penta.wl + c.penta.wd + c.penta.ww
            lower == Ln(c.beta, 100 - c.alpha)
            upper == Ln(100 - c.beta, c.alpha)
        IN  /\ c.ret = (pairs >= 1 /\ (c.llr_value <= lower \/ c.llr_value >= upper))
            /\ c.self.lower_bound = lower /\ c.self.upper_bound = upper
            /\ pairs = 0 => (c.ret = FALSE /\ c.llr = << >>)
            /\ pairs >= 1 => c.llr = <<c.llr_value>>
            /\ (c.alpha = 5 /\ c.beta = 5) => (lower = -2944 /\ upper = 2944)

\* a Penta of one pair with the LLR exactly on the upper bound terminates
C10_Witness ==
    /\ sprt_call.done
    /\ sprt_call.penta = ONE_WW
    /\ sprt_call.llr_value = sprt_call.self.upper_bound
    /\ sprt_call.ret = TRUE

(***************************************************************************)
(* The other components are checked one at a time.  While one of them runs *)
(* the tournament wrappers are not in use.                                 *)
(***************************************************************************)
WrapperUnused ==
    /\ engine_count = 2
    /\ sprt = << >>
    /\ wdl_board = EmptyMap
    /\ penta_board = EmptyMap
    /\ pending_pairing = EmptyMap
    /\ match_ticket_count = 0
    /\ match_complete_count = 0
    /\ should_terminate = FALSE
    /\ inner_swaps = TRUE
    /\ tickets = << >>
    /\ completed = EmptyMap
    /\ reordered = FALSE
    /\ panicked = FALSE
    /\ none_count = 0
    /\ call = [op |-> "new"]
    /\ sprt_call = << >>

(***************************************************************************)
(* tc.rs: EngineTime.  Durations are whole milliseconds.                   *)
(***************************************************************************)
\* largest base time and increment of a time control
MaxBase == 3
MaxIncrement == 2
\* longest duration passed to step
MaxDuration == 5
\* number of calls of step on one EngineTime
MaxSteps == 3

StepResult == {"Ok", "TimeElapsed"}

TimeControlInputs == [base : 0 .. MaxBase, increment : 0 .. MaxIncrement]

EngineTime_new(tc) == [tc |-> tc, remaining |-> tc.base + tc.increment]

\* a step that also forfeits a move taking exactly the remaining time
EngineTime_step_forfeits_on_equal(self, duration) ==
    IF self.remaining <= duration
    THEN [self |-> [self EXCEPT !.remaining = 0], ret |-> "TimeElapsed"]
    ELSE [self |-> [self EXCEPT !.remaining =
                        (self.remaining - duration) + self.tc.increment],
          ret |-> "Ok"]

\* EngineTime::step: the new EngineTime and the StepResult
EngineTime_step(self, duration) ==
    IF self.remaining < duration
    THEN [self |-> [self EXCEPT !.remaining = 0], ret |-> "TimeElapsed"]
    ELSE [self |-> [self EXCEPT !.remaining =
                        (self.remaining - duration) + self.tc.increment],
          ret |-> "Ok"]

TcInit ==
    /\ WrapperUnused
    /\ fn_call = << >>
    /\ opening_book = << >>
    /\ engine = << >>
    /\ engine_drop = << >>
    /\ main_call = << >>
    /\ \E tc \in TimeControlInputs :
         engine_time = [self |-> EngineTime_new(tc), steps |-> 0, last |-> << >>]

\* one call of step, with any duration
TcStep ==
    /\ engine_time.steps < MaxSteps
    /\ \E duration \in 0 .. MaxDuration :
         LET r == EngineTime_step(engine_time.self, duration)
         IN  engine_time' = [self |-> r.self,
                             steps |-> engine_time.steps + 1,
                             last |-> <<[duration |-> duration,
                                         before |-> engine_time.self.remaining,
                                         ret |-> r.ret]>>]
    /\ UNCHANGED <<wrapper_vars, fn_call>>
    /\ UNCHANGED <<opening_book, engine, engine_drop, main_call>>

TcNext == TcStep

TcSpec == TcInit /\ [][TcNext]_vars

\* C11: a new EngineTime has remaining = base + increment; a step of
\* duration d <= remaining returns Ok and leaves remaining - d + increment,
\* a step of duration d > remaining returns TimeElapsed and leaves 0; the
\* remaining time is never negative.
C11_ClockStep ==
    LET self == engine_time.self
    IN  /\ self.remaining >= 0
        /\ engine_time.last = << >> =>
               self.remaining = self.tc.base + self.tc.increment
        /\ engine_time.last # << >> =>
               LET l == engine_time.last[1]
               IN  IF l.duration <= l.before
                   THEN /\ l.ret = "Ok"
                        /\ self.remaining = (l.before - l.duration) + self.tc.increment
                   ELSE /\ l.ret = "TimeElapsed"
                        /\ self.remaining = 0

\* a second or later step that uses up exactly the remaining time
C11_Witness ==
    /\ engine_time.steps >= 2
    /\ engine_time.last # << >>
    /\ engine_time.last[1].duration = engine_time.last[1].before
    /\ engine_time.last[1].duration > 0
    /\ engine_time.last[1].ret = "Ok"
    /\ engine_time.self.remaining = engine_time.self.tc.increment

(***************************************************************************)
(* engine.rs: an Engine and the stdout pipe of its child process.  A byte  *)
(* is "o" (the text the caller waits for followed by a blank: "usiok ",    *)
(* "readyok ", "bestmove "), "i" (any other visible character), "\n", or   *)
(* "x" (a byte that is not valid UTF-8).  Time is counted in ticks of      *)
(* 2.5 s and passes only while the reader is blocked in poll; a call with  *)
(* a timeout is followed until one tick after the timeout.                 *)
(***************************************************************************)
\* number of bytes the child writes to its stdout
MaxBytes == 3
\* longest timeout passed to wait_for_bestmove, in ticks
MaxTimeout == 2
\* number of calls made on one Engine
MaxCalls == 2

\* 5 * Duration::SECOND, in ticks
HandshakeTimeout == 2

Bytes == {"o", "i", "\n", "x"}

ReadResult == {"Ok", "Timeout", "Disconnected"}

ReadState == {"Continue", "Stop"}

MoveRecord_default == [mstr |-> << >>]

\* a search that finds the last newline of the buffer instead of the first
memchr_newline_last(buf) ==
    IF \E i \in 1 .. Len(buf) : buf[i] = "\n"
    THEN CHOOSE i \in 1 .. Len(buf) :
             /\ buf[i] = "\n"
             /\ \A j \in (i + 1) .. Len(buf) : buf[j] # "\n"
    ELSE 0

\* memchr(b'\n', buf): the index of the first newline, 0 for None
memchr_newline(buf) ==
    IF \E i \in 1 .. Len(buf) : buf[i] = "\n"
    THEN CHOOSE i \in 1 .. Len(buf) :
             /\ buf[i] = "\n"
             /\ \A j \in 1 .. (i - 1) : buf[j] # "\n"
    ELSE 0

\* str::from_utf8(line).is_ok()
from_utf8_ok(line) == \A i \in 1 .. Len(line) : line[i] # "x"

\* the text of a line after trim()
LineText(line) == SubSeq(line, 1, Len(line) - 1)

\* the closure init passes to read_with_timeout: the first word is usiok
init_callback(line) ==
    IF line[1] = "o" THEN "Stop" ELSE "Continue"

\* the closure of isready: the trimmed line is readyok
isready_callback(line) ==
    IF LineText(line) = <<"o">> THEN "Stop" ELSE "Continue"

\* the closure of wait_for_bestmove: the first word is bestmove
wait_for_bestmove_callback(line) ==
    IF line[1] = "o" THEN "Stop" ELSE "Continue"

Callback(op, line) ==
    CASE op = "init" -> init_callback(line)
      [] op = "isready" -> isready_callback(line)
      [] OTHER -> wait_for_bestmove_callback(line)

\* the MoveRecord after the closure of wait_for_bestmove has seen line
MoveRecordAfter(mr, line) ==
    IF line[1] = "o" THEN [mstr |-> Tail(LineText(line))] ELSE mr

\* outcomes of a write to the child's stdin: it can fail once the child is gone
WriteOutcomes == IF engine.eof THEN {TRUE, FALSE} ELSE {TRUE}

\* timeouts a caller passes to wait_for_bestmove: None or Some(t)
MoveTimeouts == {<< >>} \cup {<<t>> : t \in 1 .. MaxTimeout}

\* what init, isready and wait_for_bestmove make of the value of
\* read_with_timeout(..)?: only Err leaves early, every Ok(_) goes on
AfterRead(op, read_ret, writes_ok) ==
    IF read_ret = "Err" THEN "Err"
    ELSE IF op = "init" /\ ~writes_ok THEN "Err"
    ELSE "Ok"

\* read_with_timeout returns read_ret and its caller runs to its end
EngineReturn(read_ret, writes_ok) ==
    [engine EXCEPT !.pc = "idle", !.read_ret = read_ret, !.poll_elapsed = 0,
                   !.op_ret = AfterRead(engine.op, read_ret, writes_ok)]

EngineInit ==
    /\ WrapperUnused
    /\ fn_call = << >>
    /\ engine_time = << >>
    /\ opening_book = << >>
    /\ engine_drop = << >>
    /\ main_call = << >>
    /\ engine = [pipe |-> << >>, eof |-> FALSE, taken |-> << >>, taken_before |-> 0,
                 read_buf |-> << >>, delivered |-> << >>, invalid |-> FALSE,
                 op |-> "none", pc |-> "idle", calls |-> 0, timeout |-> << >>,
                 call_elapsed |-> 0, poll_elapsed |-> 0, interrupted |-> FALSE,
                 eof_seen |-> FALSE, stopped |-> FALSE,
                 read_ret |-> "none", op_ret |-> "none",
                 mr |-> MoveRecord_default]

EngineUnchanged ==
    /\ UNCHANGED <<wrapper_vars, fn_call>>
    /\ UNCHANGED <<engine_time, opening_book, engine_drop, main_call>>

\* The child is seen to act while the reader is blocked in poll or between
\* two calls: what it does between a poll and the fill_buf after it reaches
\* the reader no differently than had it been done before that poll.
ChildRuns ==
    IF engine.pc = "idle" THEN engine.calls < MaxCalls ELSE engine.pc = "poll"

\* the child writes one byte to its stdout
ChildWrite ==
    /\ ~engine.eof
    /\ Len(engine.taken) + Len(engine.pipe) < MaxBytes
    /\ ChildRuns
    /\ \E b \in Bytes :
         engine' = [engine EXCEPT !.pipe = Append(@, b)]
    /\ EngineUnchanged

\* the child exits or closes its stdout
ChildExit ==
    /\ ~engine.eof
    /\ ChildRuns
    /\ engine' = [engine EXCEPT !.eof = TRUE]
    /\ EngineUnchanged

\* the timeout passed to poll has run out
PollExpired ==
    IF engine.timeout = << >> THEN FALSE
    ELSE engine.poll_elapsed >= engine.timeout[1]

\* a tick passes while the reader is blocked in poll
Tick ==
    /\ engine.pc = "poll"
    /\ engine.pipe = << >>
    /\ ~engine.eof
    /\ engine.timeout # << >>
    /\ ~PollExpired
    /\ engine.call_elapsed <= engine.timeout[1]
    /\ engine' = [engine EXCEPT !.call_elapsed = @ + 1, !.poll_elapsed = @ + 1]
    /\ EngineUnchanged

\* the entry into read_with_timeout(timeout, f) on behalf of op
StartRead(op, timeout) ==
    [engine EXCEPT !.op = op, !.pc = "poll", !.calls = @ + 1,
                   !.timeout = timeout, !.call_elapsed = 0, !.poll_elapsed = 0,
                   !.taken_before = Len(engine.taken),
                   !.interrupted = FALSE, !.eof_seen = FALSE, !.stopped = FALSE,
                   !.read_ret = "none", !.op_ret = "none",
                   !.mr = MoveRecord_default]

\* EngineBuilder::init after the spawn: write usi, then read until usiok
EngineBuilder_init ==
    /\ engine.op = "none"
    /\ engine.pc = "idle"
    /\ \E write_ok \in WriteOutcomes :
         engine' = IF write_ok
                   THEN StartRead("init", <<HandshakeTimeout>>)
                   ELSE [engine EXCEPT !.op = "init", !.calls = @ + 1,
                                       !.op_ret = "Err"]
    /\ EngineUnchanged

\* an Engine exists and no call on it is in progress
EngineIdle ==
    /\ engine.pc = "idle"
    /\ engine.op # "none"
    /\ engine.op = "init" => engine.op_ret = "Ok"
    /\ engine.calls < MaxCalls

\* Engine::isready: write isready, flush, then read until readyok
Engine_isready ==
    /\ EngineIdle
    /\ \E write_ok \in WriteOutcomes :
         engine' = IF write_ok
                   THEN StartRead("isready", <<HandshakeTimeout>>)
                   ELSE [engine EXCEPT !.op = "isready", !.calls = @ + 1,
                                       !.read_ret = "none", !.op_ret = "Err",
                                       !.stopped = FALSE]
    /\ EngineUnchanged

\* Engine::wait_for_bestmove(timeout)
Engine_wait_for_bestmove ==
    /\ EngineIdle
    /\ \E timeout \in MoveTimeouts :
         engine' = StartRead("wait_for_bestmove", timeout)
    /\ EngineUnchanged

\* poll reports the pipe readable when it holds bytes or is at end of file
PollReady == engine.pipe # << >> \/ engine.eof

\* read_with_timeout: libc::poll(fds, 1, timeout_ms) returns 1 or 0
Poll ==
    /\ engine.pc = "poll"
    /\ IF PollReady
       THEN engine' = [engine EXCEPT !.pc = "fill"]
       ELSE /\ PollExpired
            /\ engine' = EngineReturn("Timeout", TRUE)
    /\ EngineUnchanged

\* read_with_timeout: poll returns -1; EINTR and EAGAIN poll again
PollFails ==
    /\ engine.pc = "poll"
    /\ ~PollReady
    /\ \E errno \in {"EINTR", "EIO"} :
         engine' = IF errno = "EINTR"
                   THEN [engine EXCEPT !.poll_elapsed = 0, !.interrupted = TRUE]
                   ELSE EngineReturn("Err", TRUE)
    /\ EngineUnchanged

\* read_with_timeout: fill_buf, extend_from_slice, consume
Fill ==
    /\ engine.pc = "fill"
    /\ engine' = [engine EXCEPT !.read_buf = @ \o engine.pipe,
                                !.taken = @ \o engine.pipe,
                                !.pipe = << >>,
                                !.eof_seen = @ \/ engine.pipe = << >>,
                                !.pc = "lines"]
    /\ EngineUnchanged

\* read_with_timeout: one pass of the while let loop, or its end
Lines ==
    /\ engine.pc = "lines"
    /\ LET i == memchr_newline(engine.read_buf)
           line == SubSeq(engine.read_buf, 1, i)
           rest == SubSeq(engine.read_buf, i + 1, Len(engine.read_buf))
       IN  IF i = 0
           THEN engine' = [engine EXCEPT !.pc = "poll", !.poll_elapsed = 0]
           ELSE IF ~from_utf8_ok(line)
           THEN engine' = [EngineReturn("Err", TRUE) EXCEPT
                               !.read_buf = rest, !.invalid = TRUE]
           ELSE IF Callback(engine.op, line) = "Stop"
           THEN \E writes_ok \in WriteOutcomes :
                  engine' = [EngineReturn("Ok", writes_ok) EXCEPT
                                 !.read_buf = rest,
                                 !.delivered = Append(@, line),
                                 !.stopped = TRUE,
                                 !.mr = MoveRecordAfter(engine.mr, line)]
           ELSE engine' = [engine EXCEPT !.read_buf = rest,
                                         !.delivered = Append(@, line),
                                         !.mr = MoveRecordAfter(@, line)]
    /\ EngineUnchanged

EngineNext ==
    \/ ChildWrite
    \/ ChildExit
    \/ Tick
    \/ EngineBuilder_init
    \/ Engine_isready
    \/ Engine_wait_for_bestmove
    \/ Poll
    \/ PollFails
    \/ Fill
    \/ Lines

EngineSpec == EngineInit /\ [][EngineNext]_vars

RECURSIVE Flatten(_)
\* the bytes of a sequence of lines, one line after the other
Flatten(lines) ==
    IF lines = << >> THEN << >> ELSE Head(lines) \o Flatten(Tail(lines))

\* a line ends with its only newline
CompleteLine(line) ==
    /\ Len(line) >= 1
    /\ line[Len(line)] = "\n"
    /\ \A j \in 1 .. (Len(line) - 1) : line[j] # "\n"

\* C12: a call of read_with_timeout with a timeout, whose poll was never
\* interrupted, is not in progress later than its deadline: the timeout
\* bounds the whole call, however often the child writes a line.
C12_DeadlineBoundsCall ==
    IF engine.pc # "idle" /\ engine.timeout # << >> /\ ~engine.interrupted
    THEN engine.call_elapsed <= engine.timeout[1]
    ELSE TRUE

\* C13: once a call of read_with_timeout has read end of file, it does not
\* poll again, and what it returns is Disconnected.
C13_EofDisconnects ==
    engine.eof_seen =>
        /\ engine.pc # "poll"
        /\ engine.pc = "idle" => engine.read_ret = "Disconnected"

\* C14: as long as no read has failed on invalid UTF-8, the lines passed to
\* the callback, in the order they were passed and over all calls, followed
\* by the bytes left in read_buf, are exactly the bytes read from the pipe;
\* each of these lines ends with its only newline; and when a call that has
\* read bytes waits for more, read_buf holds no complete line.
C14_LinesInOrder ==
    ~engine.invalid =>
        /\ Flatten(engine.delivered) \o engine.read_buf = engine.taken
        /\ \A k \in 1 .. Len(engine.delivered) : CompleteLine(engine.delivered[k])
        /\ (engine.pc = "poll" /\ Len(engine.taken) > engine.taken_before) =>
               \A i \in 1 .. Len(engine.read_buf) : engine.read_buf[i] # "\n"

\* in its second call the Engine has completed and delivered a line whose
\* first byte was read during the first call, and a byte after the newline
\* waits in read_buf
C14_Witness ==
    /\ engine.calls = 2
    /\ engine.taken_before = 1
    /\ ~engine.invalid
    /\ Len(engine.delivered) = 1
    /\ Len(engine.delivered[1]) = 2
    /\ engine.read_buf # << >>
    /\ \A i \in 1 .. Len(engine.read_buf) : engine.read_buf[i] # "\n"

\* C15: init and isready return Ok only when the line they wait for (usiok,
\* readyok) was read by the call.
C15_HandshakeNeedsAnswer ==
    (engine.op \in {"init", "isready"} /\ engine.pc = "idle"
        /\ engine.op_ret = "Ok") => engine.stopped

\* C16: wait_for_bestmove returns Ok(MoveRecord) only when a bestmove line
\* was read by the call.
C16_MoveNeedsBestmove ==
    (engine.op = "wait_for_bestmove" /\ engine.pc = "idle"
        /\ engine.op_ret = "Ok") => engine.stopped

(***************************************************************************)
(* engine.rs: Drop for Engine.  Time is counted in seconds while drop      *)
(* waits for the child.                                                    *)
(***************************************************************************)
\* Duration::from_secs(10)
WaitSeconds == 10

\* the value of child.wait_timeout: Ok(Some(_)), Ok(None), Err(_)
WaitResult == {"exited", "timed_out", "failed"}

\* a drop that kills the child whatever the wait returned
KillAfter_always(wait_result) == TRUE

\* the arm Ok(None) | Err(_) of the match on wait_timeout
KillAfter(wait_result) == wait_result \in {"timed_out", "failed"}

DropInit ==
    /\ WrapperUnused
    /\ fn_call = << >>
    /\ engine_time = << >>
    /\ opening_book = << >>
    /\ engine = << >>
    /\ main_call = << >>
    /\ \E child \in {"running", "exited"} :
         engine_drop = [pc |-> "quit", child |-> child, waited |-> 0,
                        quit_ok |-> TRUE, wait_result |-> "none",
                        kill_ok |-> TRUE, calls |-> << >>, log |-> << >>]

DropUnchanged ==
    /\ UNCHANGED <<wrapper_vars, fn_call>>
    /\ UNCHANGED <<engine_time, opening_book, engine, main_call>>

\* the child exits by itself, whether or not it has read quit
DropChildExits ==
    /\ engine_drop.child = "running"
    /\ engine_drop.pc # "done"
    /\ engine_drop' = [engine_drop EXCEPT !.child = "exited"]
    /\ DropUnchanged

\* drop: info!, then match self.write_line("quit")
DropQuit ==
    /\ engine_drop.pc = "quit"
    /\ \E ok \in BOOLEAN :
         engine_drop' =
             [engine_drop EXCEPT
                 !.pc = "wait", !.quit_ok = ok,
                 !.calls = Append(@, "write_quit"),
                 !.log = IF ok THEN Append(@, "Quitting")
                         ELSE @ \o <<"Quitting", "Failed to write quit">>]
    /\ DropUnchanged

\* a second passes while wait_timeout blocks
DropTick ==
    /\ engine_drop.pc = "wait"
    /\ engine_drop.child = "running"
    /\ engine_drop.waited < WaitSeconds
    /\ engine_drop' = [engine_drop EXCEPT !.waited = @ + 1]
    /\ DropUnchanged

\* what wait_timeout can return now
WaitOutcomes ==
    {"failed"} \cup
    (IF engine_drop.child # "running" THEN {"exited"}
     ELSE IF engine_drop.waited >= WaitSeconds THEN {"timed_out"}
     ELSE {})

\* drop: match self.child.wait_timeout(Duration::from_secs(10))
DropWait ==
    /\ engine_drop.pc = "wait"
    /\ \E r \in WaitOutcomes :
         engine_drop' =
             [engine_drop EXCEPT
                 !.pc = IF KillAfter(r) THEN "kill" ELSE "done",
                 !.wait_result = r,
                 !.calls = Append(@, "wait_timeout"),
                 !.log = Append(@, IF KillAfter(r) THEN "Timed out quitting"
                                   ELSE "Quit successfully")]
    /\ DropUnchanged

\* drop: match self.child.kill()
DropKill ==
    /\ engine_drop.pc = "kill"
    /\ \E ok \in BOOLEAN :
         engine_drop' =
             [engine_drop EXCEPT
                 !.pc = "done", !.kill_ok = ok,
                 !.child = IF ok THEN "killed" ELSE @,
                 !.calls = Append(@, "kill"),
                 !.log = Append(@, IF ok THEN "killed"
                                   ELSE "Failed to kill, giving up")]
    /\ DropUnchanged

DropNext ==
    \/ DropChildExits
    \/ DropQuit
    \/ DropTick
    \/ DropWait
    \/ DropKill

\* drop runs on and the clock advances
DropSpec ==
    /\ DropInit
    /\ [][DropNext]_vars
    /\ WF_vars(DropQuit)
    /\ WF_vars(DropTick)
    /\ WF_vars(DropWait)
    /\ WF_vars(DropKill)

\* s is an initial part of t
IsPrefix(s, t) == Len(s) <= Len(t) /\ s = SubSeq(t, 1, Len(s))

InLog(message) == \E k \in 1 .. Len(engine_drop.log) : engine_drop.log[k] = message

\* the order of a drop so far
DropInOrder ==
    /\ IsPrefix(engine_drop.calls, <<"write_quit", "wait_timeout", "kill">>)
    /\ engine_drop.waited <= WaitSeconds
    /\ engine_drop.pc = "kill" \/ Len(engine_drop.calls) = 3 =>
           engine_drop.wait_result \in {"timed_out", "failed"}
    /\ engine_drop.wait_result = "exited" => engine_drop.pc = "done"
    /\ ~engine_drop.quit_ok =>
           InLog("Failed to write quit") /\ engine_drop.pc # "quit"
    /\ ~engine_drop.kill_ok =>
           InLog("Failed to kill, giving up") /\ engine_drop.pc = "done"

\* C17: a drop always comes to its end, and on the way it writes quit
\* first, then waits for the child for at most 10 s, then kills the child
\* only if the wait timed out or failed; a failed write of quit and a failed
\* kill are logged and the drop goes on to its end all the same.
C17_DropShutdown == []DropInOrder /\ <>(engine_drop.pc = "done")

\* a drop that has ended although the write of quit failed, the child did
\* not exit within the 10 s and the kill failed
C17_Witness ==
    /\ engine_drop.pc = "done"
    /\ ~engine_drop.quit_ok
    /\ engine_drop.wait_result = "timed_out"
    /\ engine_drop.waited = WaitSeconds
    /\ ~engine_drop.kill_ok
    /\ engine_drop.calls = <<"write_quit", "wait_timeout", "kill">>

(***************************************************************************)
(* main.rs: one run of the program, from its command line to its exit      *)
(* code.                                                                   *)
(***************************************************************************)
\* largest number of engines on the command line
MaxEngines == 3

\* the exit code of a main that returns Ok(()), returns Err(_), panics
EXIT_OK == 0
EXIT_ERR == 1
EXIT_PANIC == 101

\* the --book option and its file: no option, a file that cannot be read, a
\* file with a line that is no SFEN, a file without openings, a good file
BookInputs == {"missing", "unreadable", "invalid", "empty", "valid"}

\* the --pgn option: none, a file that can be created, one that cannot
PgnInputs == {"none", "writable", "unwritable"}

CliInputs ==
    [parse_ok : BOOLEAN, engines : 0 .. MaxEngines, book : BookInputs,
     pgn : PgnInputs]

MainInit ==
    /\ WrapperUnused
    /\ fn_call = << >>
    /\ engine_time = << >>
    /\ opening_book = << >>
    /\ engine = << >>
    /\ engine_drop = << >>
    /\ \E cli \in CliInputs :
         main_call = [cli |-> cli, pc |-> "parse", exit_code |-> << >>,
                      tournament_run |-> FALSE, stderr |-> << >>]

MainUnchanged ==
    /\ UNCHANGED <<wrapper_vars, fn_call>>
    /\ UNCHANGED <<engine_time, opening_book, engine, engine_drop>>

\* main ends with this exit code
MainExit(code) == [main_call EXCEPT !.pc = "exit", !.exit_code = <<code>>]

\* let Some(cli_options) = cli::parse() else { return Ok(()); };
MainParse ==
    /\ main_call.pc = "parse"
    /\ main_call' = IF main_call.cli.parse_ok
                    THEN [main_call EXCEPT !.pc = "engines"]
                    ELSE MainExit(EXIT_OK)
    /\ MainUnchanged

\* if cli_options.engines.len() < 2 { eprintln!(..); return Ok(()); }
MainEngines ==
    /\ main_call.pc = "engines"
    /\ main_call' = IF main_call.cli.engines < 2
                    THEN [MainExit(EXIT_OK) EXCEPT
                              !.stderr = Append(@, "We require at least two engines")]
                    ELSE [main_call EXCEPT !.pc = "book"]
    /\ MainUnchanged

\* if cli_options.book.is_none() { eprintln!(..); return Ok(()); }
MainBook ==
    /\ main_call.pc = "book"
    /\ main_call' = IF main_call.cli.book = "missing"
                    THEN [MainExit(EXIT_OK) EXCEPT
                              !.stderr = Append(@, "Openings file required")]
                    ELSE [main_call EXCEPT !.pc = "opening_book"]
    /\ MainUnchanged

\* book::OpeningBook::new(..).unwrap(): new returns None for a file it
\* cannot read or parse and divides by zero for a file without openings
MainOpeningBook ==
    /\ main_call.pc = "opening_book"
    /\ main_call' =
           CASE main_call.cli.book = "unreadable" ->
                    [MainExit(EXIT_PANIC) EXCEPT
                         !.stderr = Append(@, "Unable to read file for opening book")]
             [] main_call.cli.book = "invalid" ->
                    [MainExit(EXIT_PANIC) EXCEPT
                         !.stderr = Append(@, "Invalid sfen")]
             [] main_call.cli.book = "empty" -> MainExit(EXIT_PANIC)
             [] OTHER -> [main_call EXCEPT !.pc = "wrappers"]
    /\ MainUnchanged

\* RoundRobin, PgnOutWrapper::new(..)?, StatsWrapper, ReporterWrapper
MainWrappers ==
    /\ main_call.pc = "wrappers"
    /\ main_call' = IF main_call.cli.pgn = "unwritable"
                    THEN MainExit(EXIT_ERR)
                    ELSE [main_call EXCEPT !.pc = "run"]
    /\ MainUnchanged

\* r.run(tournament); Ok(())
MainRun ==
    /\ main_call.pc = "run"
    /\ main_call' = [MainExit(EXIT_OK) EXCEPT !.tournament_run = TRUE]
    /\ MainUnchanged

MainNext ==
    \/ MainParse
    \/ MainEngines
    \/ MainBook
    \/ MainOpeningBook
    \/ MainWrappers
    \/ MainRun

MainSpec == MainInit /\ [][MainNext]_vars

\* the command line is one of the configuration errors
ConfigError(cli) ==
    \/ ~cli.parse_ok
    \/ cli.engines < 2
    \/ cli.book \in {"missing", "unreadable", "invalid"}

\* C18: the process exits with code 0 only after the tournament has run,
\* and a command line with a configuration error (unparseable, fewer than
\* two engines, no book option, unreadable or invalid book file) ends with
\* a non-zero exit code and without a tournament run.
C18_ExitCode ==
    main_call.pc = "exit" =>
        /\ main_call.exit_code = <<EXIT_OK>> => main_call.tournament_run
        /\ ConfigError(main_call.cli) =>
               main_call.exit_code # <<EXIT_OK>> /\ ~main_call.tournament_run

(***************************************************************************)
(* tournament/stats_wrapper.rs: the assert! of add_penta_half.             *)
(***************************************************************************)
\* the result of ticket id would meet a sibling recorded with a pair other
\* than its own engines swapped
Mismatched(id) ==
    /\ Sibling(id) \in DOMAIN pending_pairing
    /\ pending_pairing[Sibling(id)].engines # Swap(tickets[id + 1])

\* a step in which match_complete panics
PanicStep == panicked' /\ ~panicked

\* C19: a result whose sibling is pending with an ordered pair other than
\* its own engines swapped is never taken normally: match_complete panics
\* on it, and the panicking call adds no Penta bucket; match_complete
\* panics on no other result.
C19_MismatchPanics ==
    [][/\ CompleteStep => ~Mismatched(StepId)
       /\ PanicStep =>
              /\ penta_board' = penta_board
              /\ \E id \in InFlight : Mismatched(id)
              /\ call'.op = "match_complete" /\ call'.ret = "panic"]_vars

\* match_complete has panicked on the second result of a sibling pair that
\* the inner tournament issued twice with the same ordered pair; the board
\* of Pentas has no bucket
C19_Witness ==
    /\ panicked
    /\ call.op = "match_complete"
    /\ call.ret = "panic"
    /\ ~WellPaired
    /\ penta_board = EmptyMap
    /\ wdl_board # EmptyMap

(***************************************************************************)
(* book.rs: OpeningBook.  An opening is named by the number of its line in *)
(* the book file; start_index and current are usize.                       *)
(***************************************************************************)
\* largest number of openings in the book file
MaxOpenings == 3
\* largest --start-index
MaxStartIndex == 4
\* number of calls of advance on one book
MaxAdvances == 4

\* the book file: it cannot be read, one of its lines is no SFEN, or it
\* holds n openings
BookFiles == {"unreadable", "invalid", "ok"}

BookOptions ==
    [file : BookFiles, n : 0 .. MaxOpenings, start_index : 0 .. MaxStartIndex,
     random_order : BOOLEAN]

\* the orders openings.shuffle(rng) can leave n openings in
Shuffles(n) ==
    {p \in [1 .. n -> 1 .. n] : \A i, j \in 1 .. n : p[i] = p[j] => i = j}

\* 2^64 mod n
TwoTo64Mod(n) ==
    LET a == 65536 % n
        b == (a * a) % n
    IN  (b * b) % n

\* (start_index - 1) % openings_len in usize, for start_index >= 1 and for
\* a start_index of 0 in a build whose subtraction wraps
StartCursor(start_index, openings_len) ==
    IF start_index >= 1 THEN (start_index - 1) % openings_len
    ELSE (TwoTo64Mod(openings_len) + openings_len - 1) % openings_len

\* an advance that does not wrap around
OpeningBook_advance_unwrapped(self) ==
    [self EXCEPT !.current = self.current + 1]

\* OpeningBook::advance
OpeningBook_advance(self) ==
    [self EXCEPT !.current = (self.current + 1) % Len(self.openings)]

\* OpeningBook::current
OpeningBook_current(self) == self.openings[self.current + 1]

BookInit ==
    /\ WrapperUnused
    /\ fn_call = << >>
    /\ engine_time = << >>
    /\ engine = << >>
    /\ engine_drop = << >>
    /\ main_call = << >>
    /\ \E options \in BookOptions :
         opening_book = [options |-> options, state |-> "options",
                         self |-> << >>, history |-> << >>]

BookUnchanged ==
    /\ UNCHANGED <<wrapper_vars, fn_call>>
    /\ UNCHANGED <<engine_time, engine, engine_drop, main_call>>

\* OpeningBook::new(options, rng): None for a file that cannot be read or
\* parsed; a panic for a division by zero or, in a build with overflow
\* checks, for start_index - 1 below zero; otherwise Some(book)
OpeningBook_new ==
    /\ opening_book.state = "options"
    /\ LET o == opening_book.options
       IN  IF o.file # "ok"
           THEN opening_book' = [opening_book EXCEPT !.state = "None"]
           ELSE \E openings \in (IF o.random_order THEN Shuffles(o.n)
                                 ELSE {[i \in 1 .. o.n |-> i]}) :
                  \E checked \in (IF o.start_index = 0 THEN BOOLEAN ELSE {FALSE}) :
                    IF checked \/ o.n = 0
                    THEN opening_book' = [opening_book EXCEPT !.state = "panic"]
                    ELSE LET current == StartCursor(o.start_index, o.n)
                         IN  opening_book' =
                                 [opening_book EXCEPT
                                     !.state = "Some",
                                     !.self = [openings |-> openings,
                                               current |-> current],
                                     !.history = <<current>>]
    /\ BookUnchanged

\* one call of advance
BookAdvance ==
    /\ opening_book.state = "Some"
    /\ Len(opening_book.history) <= MaxAdvances
    /\ LET self == OpeningBook_advance(opening_book.self)
       IN  opening_book' = [opening_book EXCEPT
                                !.self = self,
                                !.history = Append(@, self.current)]
    /\ BookUnchanged

BookNext == OpeningBook_new \/ BookAdvance

BookSpec == BookInit /\ [][BookNext]_vars

\* C20: a book of N >= 1 openings starts with its cursor at
\* (start_index - 1) mod N for a start_index of 1 or more; each advance
\* moves the cursor to (current + 1) mod N; the cursor always satisfies
\* 0 <= current < N; and after N consecutive advances current() is the
\* opening it was before them.
C20_CyclicCursor ==
    opening_book.state = "Some" =>
        LET self == opening_book.self
            h == opening_book.history
            N == Len(self.openings)
        IN  /\ N >= 1
            /\ opening_book.options.start_index >= 1 =>
                   h[1] = (opening_book.options.start_index - 1) % N
            /\ \A k \in 2 .. Len(h) : h[k] = (h[k - 1] + 1) % N
            /\ self.current = h[Len(h)]
            /\ 0 <= self.current /\ self.current < N
            /\ \A k \in 1 .. Len(h) :
                   k + N <= Len(h) =>
                       self.openings[h[k + N] + 1] = self.openings[h[k] + 1]

\* a shuffled book of three openings, entered at a start index beyond its
\* length, has been advanced once round and is back at its first opening
C20_Witness ==
    /\ opening_book.state = "Some"
    /\ opening_book.options.random_order
    /\ Len(opening_book.self.openings) = 3
    /\ opening_book.options.start_index = 4
    /\ opening_book.history = <<0, 1, 2, 0>>
    /\ OpeningBook_current(opening_book.self) = opening_book.self.openings[1]

\* C21: a book file that can be read and holds no opening is rejected by
\* OpeningBook::new with None; new does not panic on it.
C21_EmptyBookRejected ==
    (opening_book.options.file = "ok" /\ opening_book.options.n = 0
        /\ opening_book.state # "options") => opening_book.state = "None"

(***************************************************************************)
(* tc.rs: TimeControl::parse and Display, with their f64 arithmetic done   *)
(* exactly.  A natural number of any size is a sequence of limbs, least    *)
(* significant first, without leading zero limbs.  An f64 (finite, not     *)
(* negative, below 2^53) is a record [m, s] that stands for m * 2^(-s),    *)
(* with m odd or s = 0.                                                    *)
(***************************************************************************)
\* the limbs are the digits in base 2^14
LimbBits == 14
LimbBase == 2 ^ LimbBits

\* bits in the significand of an f64
F64_MANTISSA_DIGITS == 53

RECURSIVE BigFromNat(_)
BigFromNat(n) ==
    IF n = 0 THEN << >> ELSE <<n % LimbBase>> \o BigFromNat(n \div LimbBase)

RECURSIVE BigToNat(_)
BigToNat(a) ==
    IF a = << >> THEN 0 ELSE a[1] + LimbBase * BigToNat(Tail(a))

RECURSIVE BigMulSmall(_, _, _)
\* a * k + carry, for 0 <= k < LimbBase
BigMulSmall(a, k, carry) ==
    IF a = << >> THEN BigFromNat(carry)
    ELSE LET t == a[1] * k + carry
         IN  IF k = 0 /\ carry = 0 THEN << >>
             ELSE <<t % LimbBase>> \o BigMulSmall(Tail(a), k, t \div LimbBase)

RECURSIVE BigDivRem(_, _)
\* quotient and remainder of a by d, for 0 < d < LimbBase
BigDivRem(a, d) ==
    IF a = << >> THEN [q |-> << >>, r |-> 0]
    ELSE LET hi == BigDivRem(Tail(a), d)
             cur == hi.r * LimbBase + a[1]
             limb == cur \div d
         IN  [q |-> IF hi.q = << >> /\ limb = 0 THEN << >> ELSE <<limb>> \o hi.q,
              r |-> cur % d]

RECURSIVE BigAdd(_, _, _)
BigAdd(a, b, carry) ==
    IF a = << >> /\ b = << >> THEN BigFromNat(carry)
    ELSE LET x == IF a = << >> THEN 0 ELSE a[1]
             y == IF b = << >> THEN 0 ELSE b[1]
             t == x + y + carry
         IN  <<t % LimbBase>> \o
             BigAdd(IF a = << >> THEN a ELSE Tail(a),
                    IF b = << >> THEN b ELSE Tail(b), t \div LimbBase)

RECURSIVE BigStrip(_)
\* a without leading zero limbs
BigStrip(a) ==
    IF a = << >> THEN a
    ELSE IF a[Len(a)] = 0 THEN BigStrip(SubSeq(a, 1, Len(a) - 1)) ELSE a

RECURSIVE BigSubRaw(_, _, _)
BigSubRaw(a, b, borrow) ==
    IF a = << >> THEN << >>
    ELSE LET y == IF b = << >> THEN 0 ELSE b[1]
             t == a[1] - y - borrow
         IN  <<IF t < 0 THEN t + LimbBase ELSE t>> \o
             BigSubRaw(Tail(a), IF b = << >> THEN b ELSE Tail(b),
                       IF t < 0 THEN 1 ELSE 0)

\* a - b, for a >= b
BigSub(a, b) == BigStrip(BigSubRaw(a, b, 0))

RECURSIVE SmallBitLen(_)
SmallBitLen(n) == IF n = 0 THEN 0 ELSE 1 + SmallBitLen(n \div 2)

\* the number of bits of a
BigBitLen(a) ==
    IF a = << >> THEN 0
    ELSE (Len(a) - 1) * LimbBits + SmallBitLen(a[Len(a)])

\* a * 2^k
BigShiftLeft(a, k) ==
    IF a = << >> THEN a
    ELSE [i \in 1 .. k \div LimbBits |-> 0] \o BigMulSmall(a, 2 ^ (k % LimbBits), 0)

\* a \div 2^k, and whether a 1 bit was shifted out
BigShiftRight(a, k) ==
    LET limbs == k \div LimbBits
        d == BigDivRem(SubSeq(a, limbs + 1, Len(a)), 2 ^ (k % LimbBits))
    IN  [q |-> d.q,
         sticky |-> d.r # 0 \/ \E i \in 1 .. limbs : i <= Len(a) /\ a[i] # 0]

BigOdd(a) == a # << >> /\ a[1] % 2 = 1

F64_ZERO == [m |-> << >>, s |-> 0]

RECURSIVE SmallTrailingZeros(_)
SmallTrailingZeros(n) == IF n % 2 = 1 THEN 0 ELSE 1 + SmallTrailingZeros(n \div 2)

\* the number of 0 bits below the lowest 1 bit of a, for a # 0
BigTrailingZeros(a) ==
    LET i == CHOOSE j \in 1 .. Len(a) : a[j] # 0 /\ \A h \in 1 .. j - 1 : a[h] = 0
    IN  (i - 1) * LimbBits + SmallTrailingZeros(a[i])

\* m * 2^(-s) without the z low bits of m, which are 0
F64Dropped(m, s, z) ==
    IF z > 0 THEN [m |-> BigShiftRight(m, z).q, s |-> s - z]
    ELSE [m |-> m, s |-> s]

\* the record of m * 2^(-s) with m odd or s = 0, tz being the number of low
\* 0 bits of m
F64NormalBy(m, s, tz) == F64Dropped(m, s, IF tz < s THEN tz ELSE s)

\* the record of m * 2^(-s) with m odd or s = 0
F64Normal(m, s) ==
    IF m = << >> THEN F64_ZERO ELSE F64NormalBy(m, s, BigTrailingZeros(m))

\* extra bits a quotient is computed with before it is rounded
GuardBits == 70

\* The f64 nearest to n / (d * 2^s), ties to even: the result of an f64
\* operation whose exact value is that fraction (0 < d < LimbBase).
F64Round(n, d, s) ==
    IF n = << >> THEN F64_ZERO
    ELSE LET quot == BigDivRem(BigShiftLeft(n, GuardBits), d)
             k == BigBitLen(quot.q) - F64_MANTISSA_DIGITS
             above == BigShiftRight(quot.q, k - 1)
             half == BigOdd(above.q)
             kept == BigDivRem(above.q, 2).q
             up == half /\ (above.sticky \/ quot.r # 0 \/ BigOdd(kept))
         IN  F64Normal(IF up THEN BigAdd(kept, << >>, 1) ELSE kept,
                       (s + GuardBits) - k)

\* n as f64, for a natural n below 2^31
F64FromNat(n) == F64Normal(BigFromNat(n), 0)

\* x * k in f64, for a natural k below LimbBase
F64MulSmall(x, k) == F64Round(BigMulSmall(x.m, k, 0), 1, x.s)

\* x / d in f64
F64DivSmall(x, d) == F64Round(x.m, d, x.s)

\* x + y in f64
F64Add(x, y) ==
    LET s == IF x.s > y.s THEN x.s ELSE y.s
    IN  F64Round(BigAdd(BigShiftLeft(x.m, s - x.s),
                        BigShiftLeft(y.m, s - y.s), 0), 1, s)

\* x - y in f64, for x >= y
F64Sub(x, y) ==
    LET s == IF x.s > y.s THEN x.s ELSE y.s
    IN  F64Round(BigSub(BigShiftLeft(x.m, s - x.s),
                        BigShiftLeft(y.m, s - y.s)), 1, s)

\* x.floor() as i64 and x as u64, for 0 <= x < 2^31
F64Trunc(x) == BigToNat(BigShiftRight(x.m, x.s).q)

\* Duration::from_millis(ms).as_secs_f64(): secs as f64 + nanos as f64 / 1e9,
\* where nanos / 1e9 is the fraction (ms % 1000) / 1000
as_secs_f64(ms) ==
    F64Add(F64FromNat(ms \div 1000),
           F64Round(BigFromNat(ms % 1000), 1000, 0))

\* largest number of whole minutes and of further milliseconds in the base
\* time of a time control that is written and parsed back
MaxMinutes == 1
MaxMillis == 1001

\* The text of a time control is given by its parts: the digits before the
\* minute sign, the number before the second sign, the number after the
\* plus sign; each is absent or a number.  A number written by the Display
\* of f64 is the shortest decimal that parses back to the same f64, so the
\* text of an f64 is given by its value.
TimeControlTextInputs ==
    [minutes : 0 .. MaxMinutes, millis : 0 .. MaxMillis,
     increment : 0 .. MaxIncrement]

\* impl fmt::Display for TimeControl
TimeControl_to_string(tc) ==
    LET seconds0 == as_secs_f64(tc.base)
        minutes == F64Trunc(F64DivSmall(seconds0, 60))
        seconds == F64Sub(seconds0, F64MulSmall(F64FromNat(minutes), 60))
        with_base == tc.base # 0 \/ tc.increment = 0
    IN  [min |-> IF with_base /\ minutes > 0 THEN <<minutes>> ELSE << >>,
         sec |-> IF with_base /\ seconds # F64_ZERO THEN <<seconds>> ELSE << >>,
         incr |-> IF tc.increment # 0 THEN <<as_secs_f64(tc.increment)>>
                  ELSE << >>]

\* TimeControl::parse on a text the regex matches: Some(tc)
TimeControl_parse(text) ==
    LET min == IF text.min = << >> THEN F64_ZERO ELSE F64FromNat(text.min[1])
        sec == IF text.sec = << >> THEN F64_ZERO ELSE text.sec[1]
        incr == IF text.incr = << >> THEN F64_ZERO ELSE text.incr[1]
        base == F64Add(F64MulSmall(min, 60), sec)
        base_ms == F64Trunc(F64MulSmall(base, 1000))
        incr_ms == F64Trunc(F64MulSmall(incr, 1000))
    IN  <<[base |-> base_ms, increment |-> incr_ms]>>

FnUnchanged ==
    /\ UNCHANGED wrapper_vars
    /\ UNCHANGED <<engine_time, opening_book, engine, engine_drop, main_call>>

FnUnused ==
    /\ WrapperUnused
    /\ engine_time = << >>
    /\ opening_book = << >>
    /\ engine = << >>
    /\ engine_drop = << >>
    /\ main_call = << >>

TcTextInit ==
    /\ FnUnused
    /\ \E i \in TimeControlTextInputs :
         fn_call = [done |-> FALSE,
                    tc |-> [base |-> i.minutes * 60000 + i.millis,
                            increment |-> i.increment]]

\* TimeControl::parse(&tc.to_string())
TcRoundTrip ==
    /\ ~fn_call.done
    /\ LET text == TimeControl_to_string(fn_call.tc)
       IN  fn_call' = [done |-> TRUE, tc |-> fn_call.tc, text |-> text,
                       parsed |-> TimeControl_parse(text)]
    /\ FnUnchanged

TcTextNext == TcRoundTrip

TcTextSpec == TcTextInit /\ [][TcTextNext]_vars

\* C22: parse(tc.to_string()) is Some(tc) for every time control whose base
\* and increment are whole milliseconds.
C22_RoundTrip == fn_call.done => fn_call.parsed = <<fn_call.tc>>

(***************************************************************************)
(* Penta::flip applied to a tally, once and then again.                    *)
(***************************************************************************)
MaxPentaCount == 2

PentaFlipInputs ==
    [ll : 0 .. MaxPentaCount, dl : 0 .. MaxPentaCount, dd : 0 .. MaxPentaCount,
     wl : 0 .. MaxPentaCount, wd : 0 .. MaxPentaCount, ww : 0 .. MaxPentaCount]

PentaInit ==
    /\ FnUnused
    /\ \E p \in PentaFlipInputs : fn_call = [p |-> p, flips |-> 0, out |-> p]

\* out = out.flip()
PentaFlip ==
    /\ fn_call.flips < 2
    /\ fn_call' = [fn_call EXCEPT !.flips = @ + 1, !.out = flip(fn_call.out)]
    /\ FnUnchanged

PentaNext == PentaFlip

PentaSpec == PentaInit /\ [][PentaNext]_vars

\* C23: one flip swaps ll with ww and dl with wd and keeps dd and wl; a
\* second flip gives the tally back; the pair count is the same throughout.
C23_FlipInvolution ==
    /\ fn_call.flips = 1 =>
            /\ fn_call.out.ll = fn_call.p.ww /\ fn_call.out.ww = fn_call.p.ll
            /\ fn_call.out.dl = fn_call.p.wd /\ fn_call.out.wd = fn_call.p.dl
            /\ fn_call.out.dd = fn_call.p.dd /\ fn_call.out.wl = fn_call.p.wl
    /\ fn_call.flips = 2 => fn_call.out = fn_call.p
    /\ pair_count(fn_call.out) = pair_count(fn_call.p)

C23_Witness ==
    /\ fn_call.flips = 2
    /\ fn_call.p = [ll |-> 2, dl |-> 1, dd |-> 1, wl |-> 2, wd |-> 0, ww |-> 0]
    /\ fn_call.out = fn_call.p

(***************************************************************************)
(* sprt.rs, fn itp, in f64 arithmetic.  An f64 is a record: a number       *)
(* (c = "num") with a sign and the magnitude m * 2^(-s), an infinity       *)
(* (c = "inf") with a sign, or a NaN (c = "nan").  Every operation takes   *)
(* the exact result and rounds it to the nearest f64, ties to even.        *)
(***************************************************************************)
RECURSIVE BigCmpFrom(_, _, _)
BigCmpFrom(a, b, i) ==
    IF i = 0 THEN 0
    ELSE IF a[i] > b[i] THEN 1
    ELSE IF a[i] < b[i] THEN -1
    ELSE BigCmpFrom(a, b, i - 1)

\* -1, 0 or 1 as a < b, a = b or a > b (no leading zero limbs)
BigCmp(a, b) ==
    IF Len(a) > Len(b) THEN 1
    ELSE IF Len(a) < Len(b) THEN -1
    ELSE BigCmpFrom(a, b, Len(a))

RECURSIVE BigMul(_, _)
BigMul(a, b) ==
    IF a = << >> \/ b = << >> THEN << >>
    ELSE BigStrip(BigAdd(BigMulSmall(a, b[1], 0), <<0>> \o BigMul(a, Tail(b)), 0))

RECURSIVE QuotientDigit(_, _, _)
\* the largest digit q <= guess with d * q <= r
QuotientDigit(r, d, guess) ==
    IF BigCmp(BigMulSmall(d, guess, 0), r) <= 0 THEN guess
    ELSE QuotientDigit(r, d, guess - 1)

\* the top limbs of the remainder r2 that the top limb of a divisor of len
\* limbs is divided into
TopLimbs(r2, len) ==
    IF Len(r2) > len THEN r2[len + 1] * LimbBase + r2[len]
    ELSE IF Len(r2) = len THEN r2[len] ELSE 0

\* the first guess of a quotient digit
GuessDigit(quot) == IF quot >= LimbBase THEN LimbBase - 1 ELSE quot

\* the digit of the quotient of r2 by d
DigitOf(r2, d) ==
    IF BigCmp(r2, d) < 0 THEN 0
    ELSE QuotientDigit(r2, d, GuessDigit(TopLimbs(r2, Len(d)) \div d[Len(d)]))

RECURSIVE BigDivLimbs(_, _, _, _, _)
RECURSIVE BigDivBrought(_, _, _, _, _)
RECURSIVE BigDivDigit(_, _, _, _, _, _)
\* long division of n by d, limb by limb from limb i down, for a divisor of
\* two limbs or more whose top limb is LimbBase / 2 or more
BigDivLimbs(n, d, i, q, r) ==
    IF i = 0 \/ Len(q) + Len(r) < 0 THEN [q |-> q, r |-> r]
    ELSE BigDivBrought(n, d, i, q,
                       IF r = << >> /\ n[i] = 0 THEN << >> ELSE <<n[i]>> \o r)

\* the step of the long division on the remainder r2, a limb of n brought
\* down to it
BigDivBrought(n, d, i, q, r2) == BigDivDigit(n, d, i, q, r2, DigitOf(r2, d))

\* the step of the long division that brings the remainder r2 and the digit
\* of the quotient
BigDivDigit(n, d, i, q, r2, digit) ==
    BigDivLimbs(n, d, i - 1,
                IF q = << >> /\ digit = 0 THEN << >> ELSE <<digit>> \o q,
                BigSub(r2, BigMulSmall(d, digit, 0)))

\* the quotient and whether a remainder is left, of a division by one limb
BigDivOne(one) == [q |-> one.q, rest |-> one.r # 0]

\* the quotient and whether a remainder is left, of a long division
BigDivMany(many) == [q |-> many.q, rest |-> many.r # << >>]

\* long division of num from its top limb down
BigDivFrom(num, d) == BigDivMany(BigDivLimbs(num, d, Len(num), << >>, << >>))

\* long division of n by d, both shifted norm bits up so that the top limb
\* of the divisor is LimbBase / 2 or more
BigDivNorm(n, d, norm) == BigDivFrom(BigShiftLeft(n, norm), BigShiftLeft(d, norm))

\* The quotient of n by d and whether a remainder is left, for d # 0.
BigDiv(n, d) ==
    IF Len(d) = 1 THEN BigDivOne(BigDivRem(n, d[1]))
    ELSE BigDivNorm(n, d, LimbBits - SmallBitLen(d[Len(d)]))

\* m * 2^(k - s) as an f64 magnitude
F64Scaled(m, s, k) ==
    F64Normal(IF s >= k THEN m ELSE BigShiftLeft(m, k - s),
              IF s >= k THEN s - k ELSE 0)

\* kept, or kept + 1 when the bits dropped are above a half, or are a half
\* and kept is odd
F64TiesEven(kept, half, sticky) ==
    IF half /\ (sticky \/ BigOdd(kept)) THEN BigStrip(BigAdd(kept, << >>, 1))
    ELSE BigStrip(kept)

\* the rounding of above.q / 2, the k low bits of the significand being
\* dropped
F64RoundHalf(above, sticky, s, k) ==
    F64Scaled(F64TiesEven(BigDivRem(above.q, 2).q, BigOdd(above.q),
                          above.sticky \/ sticky), s, k)

\* the rounding of q * 2^(-s), q having bits bits
F64RoundBits(q, sticky, s, bits) ==
    IF bits <= F64_MANTISSA_DIGITS THEN F64Normal(q, s)
    ELSE F64RoundHalf(BigShiftRight(q, bits - F64_MANTISSA_DIGITS - 1), sticky,
                      s, bits - F64_MANTISSA_DIGITS)

\* The f64 magnitude nearest to q * 2^(-s), ties to even, where sticky says
\* that the exact value lies above q * 2^(-s) and below (q + 1) * 2^(-s).
F64RoundSticky(q, sticky, s) == F64RoundBits(q, sticky, s, BigBitLen(q))

\* bits the dividend is shifted up by to have as many as want
QuotShift(want, have) == IF want > have THEN want - have ELSE 0

\* the rounding of a quotient and what it leaves
F64RoundDiv(quot, s) == F64RoundSticky(quot.q, quot.rest, s)

\* the rounding of n * 2^sh / d * 2^(-s - sh)
F64RoundShifted(n, d, s, sh) == F64RoundDiv(BigDiv(BigShiftLeft(n, sh), d), s + sh)

\* the f64 magnitude nearest to n / d * 2^(-s), for bignums n and d # 0
F64RoundQuot(n, d, s) ==
    IF n = << >> THEN F64_ZERO
    ELSE F64RoundShifted(n, d, s, QuotShift(BigBitLen(d) + F64_MANTISSA_DIGITS + 3,
                                            BigBitLen(n)))

Num(neg, mag) == [c |-> "num", neg |-> neg, m |-> mag.m, s |-> mag.s]
INFINITY == [c |-> "inf", neg |-> FALSE]
NEG_INFINITY == [c |-> "inf", neg |-> TRUE]
NAN == [c |-> "nan"]

IsNum(x) == x.c = "num"
IsZero(x) == x.c = "num" /\ x.m = << >>

\* n / d as an f64 literal, for naturals n and d > 0
Lit(n, d) == Num(FALSE, F64RoundQuot(BigFromNat(n), BigFromNat(d), 0))

fneg(x) == IF x.c = "nan" THEN x ELSE [x EXCEPT !.neg = ~@]

\* f64::abs
fabs(x) == IF x.c = "nan" THEN x ELSE [x EXCEPT !.neg = FALSE]

\* the sum of a * 2^(-s) with the sign of x and b * 2^(-s) with the sign
\* of y, cmp being -1, 0 or 1 as a < b, a = b or a > b
ExactAddLimbs(x, y, s, a, b, cmp) ==
    IF x.neg = y.neg THEN [neg |-> x.neg, m |-> BigStrip(BigAdd(a, b, 0)), s |-> s]
    ELSE IF cmp = 0 THEN [neg |-> FALSE, m |-> << >>, s |-> 0]
    ELSE IF cmp > 0 THEN [neg |-> x.neg, m |-> BigSub(a, b), s |-> s]
    ELSE [neg |-> y.neg, m |-> BigSub(b, a), s |-> s]

ExactAddOf(x, y, s, a, b) == ExactAddLimbs(x, y, s, a, b, BigCmp(a, b))

\* the sum of x and y with both magnitudes in units of 2^(-s)
ExactAddAt(x, y, s) ==
    ExactAddOf(x, y, s, BigShiftLeft(x.m, s - x.s), BigShiftLeft(y.m, s - y.s))

\* the exact sum of two numbers: sign, magnitude m * 2^(-s)
ExactAdd(x, y) == ExactAddAt(x, y, IF x.s > y.s THEN x.s ELSE y.s)

ExactMul(x, y) ==
    [neg |-> x.neg # y.neg,
     m |-> IF Len(x.m) >= Len(y.m) THEN BigMul(x.m, y.m) ELSE BigMul(y.m, x.m),
     s |-> x.s + y.s]

\* the f64 nearest to an exact value
Rounded(e) == Num(e.neg, F64RoundSticky(e.m, FALSE, e.s))

\* x + y
fadd(x, y) ==
    IF x.c = "nan" \/ y.c = "nan" THEN NAN
    ELSE IF x.c = "inf" /\ y.c = "inf" THEN (IF x.neg = y.neg THEN x ELSE NAN)
    ELSE IF x.c = "inf" THEN x
    ELSE IF y.c = "inf" THEN y
    ELSE Rounded(ExactAdd(x, y))

\* x - y
fsub(x, y) == fadd(x, fneg(y))

\* x * y
fmul(x, y) ==
    IF x.c = "nan" \/ y.c = "nan" THEN NAN
    ELSE IF x.c = "inf" \/ y.c = "inf"
         THEN (IF IsZero(x) \/ IsZero(y) THEN NAN
               ELSE [c |-> "inf", neg |-> x.neg # y.neg])
    ELSE Rounded(ExactMul(x, y))

\* x / y
fdiv(x, y) ==
    IF x.c = "nan" \/ y.c = "nan" THEN NAN
    ELSE IF x.c = "inf" THEN (IF y.c = "inf" THEN NAN
                              ELSE [c |-> "inf", neg |-> x.neg # y.neg])
    ELSE IF y.c = "inf" THEN Num(x.neg # y.neg, F64_ZERO)
    ELSE IF IsZero(y) THEN (IF IsZero(x) THEN NAN
                            ELSE [c |-> "inf", neg |-> x.neg # y.neg])
    ELSE Num(x.neg # y.neg,
             F64RoundQuot(IF x.s >= y.s THEN x.m ELSE BigShiftLeft(x.m, y.s - x.s),
                          y.m, IF x.s >= y.s THEN x.s - y.s ELSE 0))

\* -1, 0, 1 as the exact value e is below 0, is 0, is above 0
ExactSign(e) == IF e.m = << >> THEN 0 ELSE IF e.neg THEN -1 ELSE 1

\* -1, 0, 1 as x < y, x = y, x > y, for numbers and infinities
fcmp(x, y) ==
    IF x.c = "inf" THEN (IF y.c = "inf" /\ y.neg = x.neg THEN 0
                         ELSE IF x.neg THEN -1 ELSE 1)
    ELSE IF y.c = "inf" THEN (IF y.neg THEN 1 ELSE -1)
    ELSE IF IsZero(x) /\ IsZero(y) THEN 0
    ELSE ExactSign(ExactAdd(x, fneg(y)))

\* x < y, x <= y, x > y: false when an operand is NaN
flt(x, y) == x.c # "nan" /\ y.c # "nan" /\ fcmp(x, y) < 0
fle(x, y) == x.c # "nan" /\ y.c # "nan" /\ fcmp(x, y) <= 0
fgt(x, y) == x.c # "nan" /\ y.c # "nan" /\ fcmp(x, y) > 0

\* fractional bits of the fixed-point numbers 2^y is summed in
FixedBits == 98

RECURSIVE Ln2Series(_, _)
\* acc plus the sum of 1 / (j * 2^j) for j = k .. FixedBits, in units of
\* 2^(-FixedBits)
Ln2Series(k, acc) ==
    IF k > FixedBits \/ Len(acc) < 0 THEN acc
    ELSE Ln2Series(k + 1,
                   BigAdd(BigDivRem(BigShiftLeft(<<1>>, FixedBits - k), k).q,
                          acc, 0))

\* ln 2
LN_2 == BigStrip(Ln2Series(1, << >>))

RECURSIVE ExpSeries(_, _, _, _)
\* acc + term + term * t / k + term * t^2 / (k (k + 1)) + ...
ExpSeries(t, term, k, acc) ==
    IF term = << >> \/ Len(acc) < 0 THEN acc
    ELSE ExpSeries(t, BigDivRem(BigShiftRight(BigMul(term, t), FixedBits).q, k).q,
                   k + 1, BigStrip(BigAdd(acc, term, 0)))

\* 2^(n / 2^s) for 0 <= n < 2^s, in units of 2^(-FixedBits)
Exp2Fraction(n, s) ==
    ExpSeries(BigShiftRight(BigMul(n, LN_2), s).q,
              BigShiftLeft(<<1>>, FixedBits), 1, << >>)

\* the f64 nearest to 2^k * e * 2^(-FixedBits)
Exp2Rounded(k, e, inexact) ==
    Num(FALSE, F64RoundSticky(IF k <= FixedBits THEN e
                              ELSE BigShiftLeft(e, k - FixedBits),
                              inexact, IF k <= FixedBits THEN FixedBits - k ELSE 0))

\* 2^k * 2^(frac * 2^(-y.s))
Exp2Floor(y, k, frac) == Exp2Rounded(k, Exp2Fraction(frac, y.s), frac # << >>)

\* 2^y for y of magnitude whole + part * 2^(-y.s): y is split into its
\* floor k and the fraction above it
Exp2Parts(y, whole, part) ==
    Exp2Floor(y, IF ~y.neg THEN whole
                 ELSE IF part = << >> THEN -whole ELSE -whole - 1,
              IF ~y.neg \/ part = << >> THEN part
              ELSE BigSub(BigShiftLeft(<<1>>, y.s), part))

\* 2^y for y whose magnitude has the integer part whole
Exp2Whole(y, whole) ==
    Exp2Parts(y, whole, BigSub(y.m, BigShiftLeft(BigFromNat(whole), y.s)))

\* f64::powf(2.0, y): the f64 nearest to 2^y
powf_2(y) ==
    IF y.c = "nan" THEN NAN
    ELSE IF y.c = "inf" THEN (IF y.neg THEN Num(FALSE, F64_ZERO) ELSE INFINITY)
    ELSE Exp2Whole(y, BigToNat(BigShiftRight(y.m, y.s).q))

\* f64::powf(x, 2.0): the f64 nearest to x * x
powf_k_2(x) == fmul(x, x)

\* x.log2().ceil() for x > 0: the least integer n with 2^n >= x
log2_ceil(x) ==
    IF x.c = "nan" \/ (x.neg /\ ~IsZero(x)) THEN NAN
    ELSE IF IsZero(x) THEN NEG_INFINITY
    ELSE IF x.c = "inf" THEN INFINITY
    ELSE LET top == BigBitLen(x.m) - 1
             n == IF x.m = BigShiftLeft(<<1>>, top) THEN top - x.s
                  ELSE top + 1 - x.s
         IN  Num(n < 0, F64FromNat(IF n < 0 THEN -n ELSE n))

RECURSIVE ISqrtNewton(_, _)
RECURSIVE ISqrtNext(_, _, _)
\* Newton's iteration for the integer square root of n, from x above it
ISqrtNewton(n, x) ==
    ISqrtNext(n, x, BigDivRem(BigStrip(BigAdd(x, BigDiv(n, x).q, 0)), 2).q)

\* the iteration stops at x when its next point y is not below x
ISqrtNext(n, x, y) == IF BigCmp(y, x) >= 0 THEN x ELSE ISqrtNewton(n, y)

\* root and what is left of n above its square
ISqrtRest(n, root) == [q |-> root, r |-> BigSub(n, BigMul(root, root))]

\* the integer square root of n and what is left of n
ISqrt(n) ==
    ISqrtRest(n, ISqrtNewton(n, BigShiftLeft(<<1>>, (BigBitLen(n) + 1) \div 2)))

\* guard bits the root of a significand of bits bits is computed with
SqrtGuard(bits) ==
    IF bits < 2 * F64_MANTISSA_DIGITS + 6
    THEN (2 * F64_MANTISSA_DIGITS + 7 - bits) \div 2 ELSE 0

\* the rounding of a root and what it leaves
SqrtRounded(root, s) == Num(FALSE, F64RoundSticky(root.q, root.r # << >>, s))

\* the root of x.m * 2^(-x.s), computed with g guard bits, odd being x.s % 2
SqrtGuarded(x, odd, g) ==
    SqrtRounded(ISqrt(BigShiftLeft(x.m, odd + 2 * g)), (x.s + odd) \div 2 + g)

\* f64::sqrt
fsqrt(x) ==
    IF x.c = "nan" THEN NAN
    ELSE IF IsZero(x) THEN x
    ELSE IF x.neg THEN NAN
    ELSE IF x.c = "inf" THEN x
    ELSE SqrtGuarded(x, x.s % 2, SqrtGuard(BigBitLen(x.m) + (x.s % 2)))

\* f64::max
fmax(x, y) ==
    IF x.c = "nan" THEN y ELSE IF y.c = "nan" THEN x
    ELSE IF fcmp(x, y) >= 0 THEN x ELSE y

\* n as f64, for an integer n
FromInt(n) == Num(n < 0, F64FromNat(IF n < 0 THEN -n ELSE n))

ZERO == Num(FALSE, F64_ZERO)
ONE == Lit(1, 1)
TWO == Lit(2, 1)
HALF == Lit(1, 2)

\* the score array llr passes to mle
score == <<ZERO, Lit(1, 4), Lit(1, 2), Lit(3, 4), ONE>>

\* mu_ref, as llr passes it to mle
MU_REF == Lit(1, 2)

THETA_EPSILON == Lit(1, 10000000)
MLE_EPSILON == Lit(1, 10000)

\* k_1 and n_0 as mle passes them to itp (k_2 is 2.0)
K_1 == Lit(1, 10)
N_0 == Lit(99, 100)

\* the number of pair outcomes, N
N == 5

RECURSIVE fsum_from(_, _, _)
fsum_from(xs, i, acc) ==
    IF i > Len(xs) \/ acc.c = "" THEN acc
    ELSE fsum_from(xs, i + 1, fadd(acc, xs[i]))

\* Iterator::sum of f64
fsum(xs) == fsum_from(xs, 1, ZERO)

\* x.powi(2)
powi_2(x) == fmul(x, x)

\* Penta::to_probs
to_probs(penta) ==
    LET gc == FromInt(PentaGameCount(penta))
    IN  <<fdiv(FromInt(penta.ll), gc), fdiv(FromInt(penta.dl), gc),
          fdiv(FromInt(penta.dd + penta.wl), gc), fdiv(FromInt(penta.wd), gc),
          fdiv(FromInt(penta.ww), gc)>>

regularize(x) == [i \in 1 .. N |-> fmax(x[i], Lit(1, 1000))]

mean(x, p) == fsum([i \in 1 .. N |-> fmul(p[i], x[i])])

\* the mean mu with the variance about it
variance_about(x, p, mu) ==
    [mu |-> mu,
     variance |-> fsum([i \in 1 .. N |-> fmul(p[i], powi_2(fsub(x[i], mu)))])]

mean_and_variance(x, p) == variance_about(x, p, mean(x, p))

\* a_i - mu_ref - 0.5 * t_star * sigma * (1.0 + ((a_i - mu) / sigma).powi(2))
phi_from_fn(mu, sigma, t_star) ==
    [i \in 1 .. N |->
        fsub(fsub(score[i], MU_REF),
             fmul(fmul(fmul(HALF, t_star), sigma),
                  fadd(ONE, powi_2(fdiv(fsub(score[i], mu), sigma)))))]

\* phi from (mu, variance): sigma is variance.sqrt()
phi_of_moments(mv, t_star) == phi_from_fn(mv.mu, fsqrt(mv.variance), t_star)

\* phi of mle for the estimate p
mle_phi(p, t_star) == phi_of_moments(mean_and_variance(score, p), t_star)

RECURSIVE fmin_from(_, _, _)
fmin_from(xs, i, acc) ==
    IF i > Len(xs) THEN acc
    ELSE fmin_from(xs, i + 1, IF fcmp(xs[i], acc) < 0 THEN xs[i] ELSE acc)

RECURSIVE fmax_from(_, _, _)
fmax_from(xs, i, acc) ==
    IF i > Len(xs) THEN acc
    ELSE fmax_from(xs, i + 1, IF fcmp(xs[i], acc) >= 0 THEN xs[i] ELSE acc)

\* equation 4.9: the closure mle passes to itp
Eq4_9(prob, phi, x) ==
    fsum([i \in 1 .. N |->
            fdiv(fmul(prob[i], phi[i]), fadd(ONE, fmul(x, phi[i])))])

\* x^3 - x - 2
Cubic(x) == fsub(fsub(fmul(fmul(x, x), x), x), TWO)

\* the closure f of the itp call in progress
ItpF(run, x) ==
    IF run.kind = "cubic" THEN Cubic(x) ELSE Eq4_9(run.prob, run.phi, x)

\* itp up to the loop: the swap, the assert!, n_max
itp_enter(run) ==
    LET swap == fgt(run.f_a, ZERO)
        a == IF swap THEN run.b ELSE run.a
        b == IF swap THEN run.a ELSE run.b
        f_a == IF swap THEN run.f_b ELSE run.f_a
        f_b == IF swap THEN run.f_a ELSE run.f_b
        n_half == log2_ceil(fdiv(fabs(fsub(b, a)), fmul(TWO, run.epsilon)))
    IN  IF ~(flt(f_a, ZERO) /\ flt(ZERO, f_b)) THEN [run EXCEPT !.pc = "panic"]
        ELSE [run EXCEPT !.a = a, !.b = b, !.f_a = f_a, !.f_b = f_b,
                          !.n_max = fadd(n_half, N_0), !.i = 0, !.pc = "loop"]

\* (b - a).abs() > 2.0 * epsilon
itp_continues(run) ==
    fgt(fabs(fsub(run.b, run.a)), fmul(TWO, run.epsilon))

\* x_itp from x_t: the projection onto the interval of radius r about x_half
itp_x_itp(x_half, r, sigma, x_t) ==
    IF fle(fabs(fsub(x_t, x_half)), r) THEN x_t
    ELSE fsub(x_half, fmul(sigma, r))

\* x_t: x_f moved by delta towards x_half
itp_x_t(x_half, delta, x_f, sigma) ==
    IF fle(delta, fabs(fsub(x_half, x_f)))
    THEN fadd(x_f, fmul(sigma, delta)) ELSE x_half

\* x_itp from sigma
itp_from_sigma(x_half, r, delta, x_f, sigma) ==
    itp_x_itp(x_half, r, sigma, itp_x_t(x_half, delta, x_f, sigma))

\* x_itp from x_half, r, delta and x_f: sigma is
\* (x_half - x_f) / (x_half - x_f).abs()
itp_from_x_f(x_half, r, delta, x_f) ==
    itp_from_sigma(x_half, r, delta, x_f,
                   fdiv(fsub(x_half, x_f), fabs(fsub(x_half, x_f))))

\* x_itp of one pass of the loop: x_half, r, delta and x_f, then the rest
itp_point(run) ==
    LET a == run.a
        b == run.b
    IN  itp_from_x_f(fdiv(fadd(a, b), TWO),
                     fsub(fmul(run.epsilon,
                               powf_2(fsub(run.n_max, FromInt(run.i)))),
                          fdiv(fsub(b, a), TWO)),
                     fmul(K_1, powf_k_2(fsub(b, a))),
                     fdiv(fsub(fmul(run.f_b, a), fmul(run.f_a, b)),
                          fsub(run.f_b, run.f_a)))

\* The new bracket after f was evaluated at x_itp.  The sign bit of a NaN is
\* not determined, so a NaN may replace either end.
itp_update(run, x_itp, f_itp) ==
    LET low == [run EXCEPT !.a = x_itp, !.f_a = f_itp, !.i = @ + 1]
        high == [run EXCEPT !.b = x_itp, !.f_b = f_itp, !.i = @ + 1]
    IN  IF IsZero(f_itp) THEN {[run EXCEPT !.a = x_itp, !.b = x_itp, !.i = @ + 1]}
        ELSE IF f_itp.c = "nan" THEN {low, high}
        ELSE IF f_itp.neg THEN {low} ELSE {high}

\* f is evaluated at x_itp and the bracket is updated
itp_at(run, x_itp) == itp_update(run, x_itp, ItpF(run, x_itp))

\* one pass of the loop of itp
itp_body(run) == itp_at(run, itp_point(run))

\* (a + b) / 2.0
itp_result(run) == fdiv(fadd(run.a, run.b), TWO)

HasNaN(xs) == \E i \in 1 .. Len(xs) : xs[i].c = "nan"

\* mle from phi to the call of itp: u and v, min_theta and max_theta
bracket_of_phi(run, phi) ==
    LET u == fmin_from(phi, 2, phi[1])
        v == fmax_from(phi, 2, phi[1])
    IN  IF HasNaN(phi) THEN [run EXCEPT !.pc = "panic"]
        ELSE [run EXCEPT !.prev_p = run.p, !.phi = phi,
                          !.a = fdiv(fneg(ONE), v), !.b = fdiv(fneg(ONE), u),
                          !.f_a = INFINITY, !.f_b = NEG_INFINITY,
                          !.epsilon = THETA_EPSILON, !.pc = "itp"]

\* mle from the top of its loop to the call of itp
mle_bracket(run) == bracket_of_phi(run, mle_phi(run.p, run.t_star))

\* mle from the return of itp to the end of its loop
mle_estimate(run) ==
    LET p == [i \in 1 .. N |->
                fdiv(run.prob[i], fadd(ONE, fmul(run.ret, run.phi[i])))]
        good == \A i \in 1 .. N :
                    flt(fabs(fsub(run.prev_p[i], p[i])), MLE_EPSILON)
    IN  [run EXCEPT !.p = p, !.pc = IF good THEN "done" ELSE "mle"]

(***************************************************************************)
(* Calls of itp: on x^3 - x - 2 with the values of f at the ends of the   *)
(* bracket, and from mle on equation 4.9.  fn_call holds the arguments and *)
(* locals of the call of itp in progress and, for mle, its locals.         *)
(***************************************************************************)
\* brackets and tolerances itp is called with on x^3 - x - 2
CubicInputs ==
    {[a |-> Lit(1, 1), b |-> Lit(2, 1), epsilon |-> THETA_EPSILON],
     [a |-> Lit(2, 1), b |-> Lit(1, 1), epsilon |-> THETA_EPSILON],
     [a |-> Lit(1, 1), b |-> Lit(3, 1), epsilon |-> Lit(1, 1000)]}

\* tallies llr is called with
MlePentaInputs ==
    {[ll |-> 1, dl |-> 0, dd |-> 0, wl |-> 0, wd |-> 0, ww |-> 0],
     [ll |-> 0, dl |-> 1, dd |-> 1, wl |-> 1, wd |-> 0, ww |-> 1]}

\* t_star: t0 or t1 times the square root of 2, where t is nelo / c_et and
\* c_et is 347.4; nelo 0, about 15 and about 246
TStarInputs == {ZERO, Lit(1, 16), ONE}

ItpInit ==
    /\ FnUnused
    /\ \/ \E in \in CubicInputs :
            fn_call = [kind |-> "cubic", bracket |-> <<in.a, in.b>>,
                       prob |-> << >>, t_star |-> ZERO,
                       p |-> << >>, prev_p |-> << >>, phi |-> << >>,
                       epsilon |-> in.epsilon, a |-> in.a, b |-> in.b,
                       f_a |-> Cubic(in.a), f_b |-> Cubic(in.b),
                       n_max |-> ZERO, i |-> 0, ret |-> ZERO, pc |-> "itp"]
       \/ \E penta \in MlePentaInputs, t_star \in TStarInputs :
            fn_call = [kind |-> "mle", bracket |-> << >>,
                       prob |-> regularize(to_probs(penta)), t_star |-> t_star,
                       p |-> [i \in 1 .. N |-> fdiv(ONE, FromInt(N))],
                       prev_p |-> << >>, phi |-> << >>,
                       epsilon |-> ZERO, a |-> ZERO, b |-> ZERO,
                       f_a |-> ZERO, f_b |-> ZERO,
                       n_max |-> ZERO, i |-> 0, ret |-> ZERO, pc |-> "mle"]

\* mle computes phi and the bracket and calls itp
MleCallsItp ==
    /\ fn_call.pc = "mle"
    /\ fn_call' = mle_bracket(fn_call)
    /\ FnUnchanged

ItpEnter ==
    /\ fn_call.pc = "itp"
    /\ fn_call' = itp_enter(fn_call)
    /\ FnUnchanged

ItpLoop ==
    /\ fn_call.pc = "loop"
    /\ itp_continues(fn_call)
    /\ fn_call' \in itp_body(fn_call)
    /\ FnUnchanged

ItpReturn ==
    /\ fn_call.pc = "loop"
    /\ ~itp_continues(fn_call)
    /\ fn_call' = [fn_call EXCEPT !.ret = itp_result(fn_call), !.pc = "ret"]
    /\ FnUnchanged

\* mle takes theta and makes its new estimate
MleEstimate ==
    /\ fn_call.pc = "ret"
    /\ fn_call.kind = "mle"
    /\ fn_call' = mle_estimate(fn_call)
    /\ FnUnchanged

ItpNext == MleCallsItp \/ ItpEnter \/ ItpLoop \/ ItpReturn \/ MleEstimate

ItpSpec == ItpInit /\ [][ItpNext]_vars

(***************************************************************************)
(* Exact values, for the position of the roots: a sign and the magnitude   *)
(* m * 2^(-s), nothing rounded.                                            *)
(***************************************************************************)
Exact(x) == [neg |-> x.neg, m |-> x.m, s |-> x.s]
ExactNat(n) == [neg |-> FALSE, m |-> BigFromNat(n), s |-> 0]
ExactNeg(e) == [e EXCEPT !.neg = ~@]
ExactSub(x, y) == ExactAdd(x, ExactNeg(y))

\* the sign of x^3 - x - 2
CubicSign(x) ==
    ExactSign(ExactSub(ExactSub(ExactMul(ExactMul(x, x), x), x), ExactNat(2)))

\* 1 + x * phi[j]
Denominator(phi, x, j) == ExactAdd(ExactNat(1), ExactMul(x, phi[j]))

RECURSIVE ProductBut(_, _, _, _)
\* the product of the denominators j .. N but the one of i
ProductBut(phi, x, i, j) ==
    IF j > N THEN ExactNat(1)
    ELSE IF j = i THEN ProductBut(phi, x, i, j + 1)
    ELSE ExactMul(ProductBut(phi, x, i, j + 1), Denominator(phi, x, j))

RECURSIVE NumeratorFrom(_, _, _, _)
\* equation 4.9 times all its denominators, terms i .. N
NumeratorFrom(prob, phi, x, i) ==
    IF i > N THEN ExactNat(0)
    ELSE ExactAdd(ExactMul(ExactMul(prob[i], phi[i]), ProductBut(phi, x, i, 1)),
                  NumeratorFrom(prob, phi, x, i + 1))

\* x is a pole of equation 4.9
AtPole(phi, x) ==
    \E j \in 1 .. N : phi[j].m # << >> /\ ExactSign(Denominator(phi, x, j)) = 0

\* the sign of equation 4.9 at x, which is no pole
Eq4_9Sign(prob, phi, x) ==
    LET negative == {j \in 1 .. N : ExactSign(Denominator(phi, x, j)) < 0}
        sign == ExactSign(NumeratorFrom(prob, phi, x, 1))
    IN  IF Cardinality(negative) % 2 = 0 THEN sign ELSE -sign

\* the poles -1 / phi[j] of equation 4.9 in [lo, hi], each given by its phi
PolesIn(phi, lo, hi) ==
    {Exact(phi[j]) : j \in {h \in 1 .. N :
        /\ phi[h].m # << >>
        /\ ExactSign(Denominator(phi, lo, h)) * ExactSign(Denominator(phi, hi, h)) <= 0}}

\* Equation 4.9 has a root in [lo, hi].  It is the sum of prob[j] / (x - q)
\* over the poles q = -1 / phi[j], with prob[j] > 0: it falls from +infinity to
\* -infinity between two poles next to each other and has one root there.
Eq4_9RootIn(prob, phi, lo, hi) ==
    IF PolesIn(phi, lo, hi) = {}
    THEN Eq4_9Sign(prob, phi, lo) >= 0 /\ Eq4_9Sign(prob, phi, hi) <= 0
    ELSE \/ Cardinality(PolesIn(phi, lo, hi)) >= 2
         \/ ~AtPole(phi, lo) /\ Eq4_9Sign(prob, phi, lo) >= 0
         \/ ~AtPole(phi, hi) /\ Eq4_9Sign(prob, phi, hi) <= 0

\* the function of the call has a root within epsilon of the value returned
RootWithinEpsilon ==
    LET lo == ExactSub(fn_call.ret, fn_call.epsilon)
        hi == ExactAdd(fn_call.ret, fn_call.epsilon)
    IN  IF fn_call.kind = "cubic" THEN CubicSign(lo) * CubicSign(hi) <= 0
        ELSE Eq4_9RootIn(fn_call.prob, fn_call.phi, lo, hi)

\* the value returned is 1.521379707 give or take 1e-7
AboutCubicRoot ==
    LET scaled == ExactMul(fn_call.ret, ExactNat(1000000000))
    IN  /\ ExactSign(ExactSub(scaled, ExactNat(1521379607))) >= 0
        /\ ExactSign(ExactSub(ExactNat(1521379807), scaled)) >= 0

\* C24: in the loop of itp f_a < 0 < f_b; itp returns when |b - a| <=
\* 2 * epsilon, and the function has a root within epsilon of the value
\* returned, on x^3 - x - 2 as in every call from mle on equation 4.9; on
\* x^3 - x - 2 over [1, 2] with epsilon 1e-7 the value is about 1.521379707.
C24_ItpFindsRoot ==
    /\ fn_call.pc = "loop" => flt(fn_call.f_a, ZERO) /\ flt(ZERO, fn_call.f_b)
    /\ fn_call.pc = "ret" => ~itp_continues(fn_call) /\ RootWithinEpsilon
    /\ (/\ fn_call.pc = "ret"
        /\ fn_call.kind = "cubic"
        /\ fn_call.bracket = <<ONE, TWO>>
        /\ fn_call.epsilon = THETA_EPSILON) => AboutCubicRoot

(***************************************************************************)
(* The callback of Engine::wait_for_bestmove, on the text of one line.     *)
(***************************************************************************)
Char(s, i) == SubSeq(s, i, i)

\* u8::is_ascii_whitespace, which split_ascii_whitespace separates on
is_ascii_whitespace(c) == c \in {" ", "\t", "\n", "\f", "\r"}

RECURSIVE TokensFrom(_, _, _, _)
TokensFrom(s, i, cur, acc) ==
    IF i > Len(s) THEN (IF cur = "" THEN acc ELSE Append(acc, cur))
    ELSE IF is_ascii_whitespace(Char(s, i))
         THEN TokensFrom(s, i + 1, "", IF cur = "" THEN acc ELSE Append(acc, cur))
         ELSE TokensFrom(s, i + 1, cur \o Char(s, i), acc)

\* the non-empty runs of characters between ASCII whitespace
split_ascii_whitespace(s) == TokensFrom(s, 1, "", << >>)

\* the text without its leading and trailing whitespace
trim(s) ==
    LET kept == {i \in 1 .. Len(s) : ~is_ascii_whitespace(Char(s, i))}
    IN  IF kept = {} THEN ""
        ELSE SubSeq(s, CHOOSE i \in kept : \A j \in kept : i <= j,
                       CHOOSE i \in kept : \A j \in kept : j <= i)

RECURSIVE PiecesFrom(_, _, _, _, _)
PiecesFrom(s, sep, i, cur, acc) ==
    IF i > Len(s) THEN Append(acc, cur)
    ELSE IF Char(s, i) = sep
         THEN PiecesFrom(s, sep, i + 1, "", Append(acc, cur))
         ELSE PiecesFrom(s, sep, i + 1, cur \o Char(s, i), acc)

\* str::split on one character: the pieces between its occurrences, the empty
\* ones included
split(s, sep) == PiecesFrom(s, sep, 1, "", << >>)

\* Iterator::nth (counted from 0) with unwrap_or
nth_or(pieces, n, default) ==
    IF n + 1 <= Len(pieces) THEN pieces[n + 1] ELSE default

DecimalDigits == "0123456789"
is_digit(c) == \E d \in 0 .. 9 : Char(DecimalDigits, d + 1) = c
to_digit(c) == CHOOSE d \in 0 .. 9 : Char(DecimalDigits, d + 1) = c

RECURSIVE DigitsValue(_, _, _)
DigitsValue(s, i, acc) ==
    IF i > Len(s) THEN acc
    ELSE DigitsValue(s, i + 1, BigMulSmall(acc, 10, to_digit(Char(s, i))))

U32_MAX == BigSub(BigShiftLeft(<<1>>, 32), <<1>>)
U64_MAX == BigSub(BigShiftLeft(<<1>>, 64), <<1>>)
I32_MAX == BigSub(BigShiftLeft(<<1>>, 31), <<1>>)
I32_MIN_MAGNITUDE == BigShiftLeft(<<1>>, 31)

\* str::parse for an integer type: an optional sign ("-" for signed types
\* only), then one decimal digit or more, the value within the type's range;
\* << >> is Err, <<v>> is Ok(v) with v = [neg, mag]
parse_integer(s, is_signed, max, min_magnitude) ==
    LET sign == IF s = "" THEN "" ELSE Head(s)
        signed == sign = "+" \/ (is_signed /\ sign = "-")
        digits == IF signed THEN Tail(s) ELSE s
        mag == DigitsValue(digits, 1, << >>)
        neg == sign = "-"
    IN  IF digits = "" \/ \E i \in 1 .. Len(digits) : ~is_digit(Char(digits, i))
        THEN << >>
        ELSE IF BigCmp(mag, IF neg THEN min_magnitude ELSE max) > 0 THEN << >>
        ELSE <<[neg |-> neg /\ mag # << >>, mag |-> mag]>>

\* value.parse::<u32>() and value.parse::<u64>(): the magnitude in limbs
parse_u32(s) ==
    LET v == parse_integer(s, FALSE, U32_MAX, << >>)
    IN  IF v = << >> THEN v ELSE <<v[1].mag>>

parse_u64(s) ==
    LET v == parse_integer(s, FALSE, U64_MAX, << >>)
    IN  IF v = << >> THEN v ELSE <<v[1].mag>>

parse_i32(s) == parse_integer(s, TRUE, I32_MAX, I32_MIN_MAGNITUDE)

Score_None == [c |-> "None"]
Score_Cp(v) == [c |-> "Cp", neg |-> v.neg, mag |-> v.mag]
Score_Mate(v) == [c |-> "Mate", neg |-> v.neg, mag |-> v.mag]

\* MoveRecord::default(), of the fields the callback writes; the numbers are
\* held in limbs
MoveRecord_fields_default ==
    [mstr |-> "", score |-> Score_None, depth |-> << >>, seldepth |-> << >>,
     nodes |-> << >>, nps |-> << >>, engine_time |-> << >>, hashfull |-> << >>]

\* a parse that yields 0 for a text that is no number
InfoParse_or_default(tok, value) ==
    LET parsed == IF tok \in {"depth", "seldepth", "hashfull"} THEN parse_u32(value)
                  ELSE parse_u64(value)
    IN  IF parsed = << >> THEN <<<< >>>> ELSE parsed

\* the field an info keyword reports, and the parse of its type
InfoField(tok) == IF tok = "time" THEN "engine_time" ELSE tok
InfoParse(tok, value) ==
    IF tok \in {"depth", "seldepth", "hashfull"} THEN parse_u32(value)
    ELSE parse_u64(value)

RECURSIVE info_tokens(_, _, _)
\* the while loop over the tokens of an info line, it.next() being toks[i]
info_tokens(mr, toks, i) ==
    IF i > Len(toks) THEN mr
    ELSE LET tok == toks[i]
         IN  IF tok = "string" THEN mr
             ELSE IF tok \in {"depth", "seldepth", "nodes", "nps", "time", "hashfull"}
             THEN IF i + 1 > Len(toks) THEN mr
                  ELSE LET value == InfoParse(tok, toks[i + 1])
                       IN  info_tokens(IF value = << >> THEN mr
                                       ELSE [mr EXCEPT ![InfoField(tok)] = value[1]],
                                       toks, i + 2)
             ELSE IF tok = "score"
             THEN IF i + 1 > Len(toks) THEN mr
                  ELSE IF toks[i + 1] \in {"cp", "mate"}
                  THEN IF i + 2 > Len(toks) THEN mr
                       ELSE LET value == parse_i32(toks[i + 2])
                                scored == IF toks[i + 1] = "cp" THEN Score_Cp(value[1])
                                         ELSE Score_Mate(value[1])
                            IN  info_tokens(IF value = << >> THEN mr
                                            ELSE [mr EXCEPT !.score = scored],
                                            toks, i + 3)
                  ELSE info_tokens(mr, toks, i + 2)
             ELSE info_tokens(mr, toks, i + 1)

\* the closure handed to read_with_timeout: the MoveRecord after the line and
\* the ReadState returned
wait_for_bestmove_closure(mr, line) ==
    LET it == split_ascii_whitespace(line)
        first == IF it = << >> THEN "" ELSE it[1]
    IN  IF first = "info"
        THEN [mr |-> info_tokens(mr, it, 2), ret |-> "Continue"]
        ELSE IF first = "bestmove"
        THEN [mr |-> [mr EXCEPT !.mstr = nth_or(split(trim(line), " "), 1, "")],
              ret |-> "Stop"]
        ELSE [mr |-> mr, ret |-> "Continue"]

(***************************************************************************)
(* The lines an engine writes while it searches: info lines made of items  *)
(* (a keyword with the token after it, `string`, or a token that is no     *)
(* keyword), other lines, and the bestmove line that ends the search.      *)
(***************************************************************************)
MaxItems == 2

InfoKeys == {"depth", "seldepth", "nodes", "nps", "time", "hashfull", "cp", "mate"}

\* the token after a keyword, with the number it stands for in each type
\* (<< >> when it is no number of the type)
ValueTokens ==
    {[text |-> "7", u32 |-> <<<<7>>>>, u64 |-> <<<<7>>>>,
      i32 |-> <<[neg |-> FALSE, mag |-> <<7>>]>>],
     [text |-> "+12", u32 |-> <<<<12>>>>, u64 |-> <<<<12>>>>,
      i32 |-> <<[neg |-> FALSE, mag |-> <<12>>]>>],
     [text |-> "-3", u32 |-> << >>, u64 |-> << >>,
      i32 |-> <<[neg |-> TRUE, mag |-> <<3>>]>>],
     [text |-> "4294967296", u32 |-> << >>, u64 |-> <<<<0, 0, 16>>>>, i32 |-> << >>],
     [text |-> "x", u32 |-> << >>, u64 |-> << >>, i32 |-> << >>],
     [text |-> "string", u32 |-> << >>, u64 |-> << >>, i32 |-> << >>]}

NoValue == [text |-> "", u32 |-> << >>, u64 |-> << >>, i32 |-> << >>]

\* the items of the lines of a search that reports the field of one keyword
InfoItems(key) ==
    {[key |-> key, value |-> v] : v \in ValueTokens}
        \cup {[key |-> k, value |-> NoValue] : k \in {"string", "pv", "lowerbound"}}

ItemText(item) ==
    IF item.key \in {"cp", "mate"} THEN "score " \o item.key \o " " \o item.value.text
    ELSE IF item.key = "lowerbound" THEN "score lowerbound"
    ELSE IF item.key \in InfoKeys THEN item.key \o " " \o item.value.text
    ELSE item.key

RECURSIVE ItemsText(_)
ItemsText(items) ==
    IF items = << >> THEN "" ELSE " " \o ItemText(Head(items)) \o ItemsText(Tail(items))

InfoLine(items) == "info" \o ItemsText(items) \o "\n"

InfoLines(key) ==
    UNION {[1 .. n -> InfoItems(key)] : n \in 0 .. MaxItems}

\* what an item reports: << >> or <<field, value>>
Reports(item) ==
    IF item.key \in {"depth", "seldepth", "hashfull"} /\ item.value.u32 # << >>
    THEN <<item.key, item.value.u32[1]>>
    ELSE IF item.key \in {"nodes", "nps"} /\ item.value.u64 # << >>
    THEN <<item.key, item.value.u64[1]>>
    ELSE IF item.key = "time" /\ item.value.u64 # << >>
    THEN <<"engine_time", item.value.u64[1]>>
    ELSE IF item.key = "cp" /\ item.value.i32 # << >>
    THEN <<"score", [c |-> "Cp", neg |-> item.value.i32[1].neg,
                     mag |-> item.value.i32[1].mag]>>
    ELSE IF item.key = "mate" /\ item.value.i32 # << >>
    THEN <<"score", [c |-> "Mate", neg |-> item.value.i32[1].neg,
                     mag |-> item.value.i32[1].mag]>>
    ELSE << >>

\* the items of a line before its first `string`
BeforeString(items) ==
    LET at == {i \in 1 .. Len(items) : items[i].key = "string"}
    IN  IF at = {} THEN items
        ELSE SubSeq(items, 1, (CHOOSE i \in at : \A j \in at : i <= j) - 1)

\* the fields after a line, by what its items report: each field holds the
\* last value reported for it before `string`, or what it held
Reported(fields, items) ==
    LET read == BeforeString(items)
    IN  [f \in DOMAIN fields |->
            LET at == {i \in 1 .. Len(read) :
                          Reports(read[i]) # << >> /\ Reports(read[i])[1] = f}
            IN  IF at = {} THEN fields[f]
                ELSE Reports(read[CHOOSE i \in at : \A j \in at : j <= i])[2]]

\* which cases a line shows: a token that is no keyword before a report, a
\* report after `string`, a malformed value, a new value for a field that
\* held one
CasesOf(fields, items) ==
    LET read == BeforeString(items)
    IN  {c \in {"unknown", "string", "malformed", "again"} :
            \/ /\ c = "unknown"
               /\ \E i, j \in 1 .. Len(read) :
                      /\ i < j
                      /\ read[i].key \in {"pv", "lowerbound"}
                      /\ Reports(read[j]) # << >>
            \/ /\ c = "string"
               /\ \E i, j \in 1 .. Len(items) :
                      i < j /\ items[i].key = "string" /\ Reports(items[j]) # << >>
            \/ /\ c = "malformed"
               /\ \E i \in 1 .. Len(read) :
                      read[i].key \in InfoKeys /\ Reports(read[i]) = << >>
            \/ /\ c = "again"
               /\ \E i \in 1 .. Len(read) :
                      /\ Reports(read[i]) # << >>
                      /\ fields[Reports(read[i])[1]] # MoveRecord_fields_default[Reports(read[i])[1]]
                      /\ fields[Reports(read[i])[1]] # Reports(read[i])[2]}

Separators == {" ", "  ", "\t"}
MoveTexts == {"7g7f", "resign", "win"}
PonderTexts == {""} \cup {sep \o "ponder 3c3d" : sep \in Separators}
OtherLines == {"\n", "readyok\n", "Info depth 7\n"}

BestmoveInit ==
    /\ FnUnused
    /\ \E key \in InfoKeys :
           fn_call = [key |-> key, mr |-> MoveRecord_fields_default,
                      reported |-> MoveRecord_fields_default, cases |-> {},
                      line |-> "", move |-> "", ret |-> "Continue"]

\* read_with_timeout hands an info line to the callback
CallbackInfo ==
    /\ fn_call.ret = "Continue"
    /\ \E items \in InfoLines(fn_call.key) :
           LET after == wait_for_bestmove_closure(fn_call.mr, InfoLine(items))
           IN  fn_call' = [fn_call EXCEPT
                              !.mr = after.mr,
                              !.ret = after.ret,
                              !.reported = Reported(fn_call.reported, items),
                              !.cases = CasesOf(fn_call.reported, items)]
    /\ FnUnchanged

\* read_with_timeout hands a line that is neither info nor bestmove to the
\* callback
CallbackOther ==
    /\ fn_call.ret = "Continue"
    /\ \E line \in OtherLines :
           LET after == wait_for_bestmove_closure(fn_call.mr, line)
           IN  fn_call' = [fn_call EXCEPT !.mr = after.mr, !.ret = after.ret,
                                          !.cases = {"other"}]
    /\ FnUnchanged

\* read_with_timeout hands the bestmove line to the callback
CallbackBestmove ==
    /\ fn_call.ret = "Continue"
    /\ \E sep \in Separators, move \in MoveTexts, ponder \in PonderTexts :
           LET line == "bestmove" \o sep \o move \o ponder \o "\n"
               after == wait_for_bestmove_closure(fn_call.mr, line)
           IN  fn_call' = [fn_call EXCEPT !.mr = after.mr, !.ret = after.ret,
                                          !.line = line, !.move = move]
    /\ FnUnchanged

BestmoveNext == CallbackInfo \/ CallbackOther \/ CallbackBestmove

BestmoveSpec == BestmoveInit /\ [][BestmoveNext]_vars

\* C25: after a bestmove line, mstr is the first whitespace-delimited token
\* after `bestmove`, whatever whitespace separates the two and whether or not
\* the token is a move; `ponder` and what follows it is no part of mstr.
C25_MstrIsFirstToken ==
    fn_call.ret = "Stop" => fn_call.mr.mstr = fn_call.move

EngineReadyInit ==
    /\ WrapperUnused
    /\ fn_call = << >>
    /\ engine_time = << >>
    /\ opening_book = << >>
    /\ engine_drop = << >>
    /\ main_call = << >>
    /\ engine = [pipe |-> << >>, eof |-> FALSE, taken |-> << >>, taken_before |-> 0,
                 read_buf |-> << >>, delivered |-> << >>, invalid |-> FALSE,
                 op |-> "init", pc |-> "idle", calls |-> 0,
                 timeout |-> <<HandshakeTimeout>>,
                 call_elapsed |-> 0, poll_elapsed |-> 0, interrupted |-> FALSE,
                 eof_seen |-> FALSE, stopped |-> TRUE,
                 read_ret |-> "Ok", op_ret |-> "Ok",
                 mr |-> MoveRecord_default]

EngineReadyNext ==
    \/ ChildWrite
    \/ ChildExit
    \/ Tick
    \/ Engine_isready
    \/ Engine_wait_for_bestmove
    \/ Poll
    \/ PollFails
    \/ Fill
    \/ Lines

EngineReadySpec == EngineReadyInit /\ [][EngineReadyNext]_vars

\* C27: a line that is not valid UTF-8 makes read_with_timeout return an error
\* without the callback being invoked for it, and no line is delivered to a
\* callback on that Engine after it.
C27_InvalidUtf8Fatal ==
    [][/\ (~engine.invalid /\ engine'.invalid) =>
              /\ engine'.read_ret = "Err"
              /\ engine'.pc = "idle"
              /\ engine'.delivered = engine.delivered
       /\ engine.invalid => engine'.delivered = engine.delivered]_vars

\* C28: once should_terminate is set and every ticket that next() returned has
\* been passed to match_complete, the match_complete call for the last of them
\* returns Stop, also when next() was answered None by the inner tournament
\* before: match_ticket_count is the number of tickets handed out.
C28_LastCompleteStops ==
    /\ match_ticket_count = Len(tickets)
    /\ (/\ call.op = "match_complete"
        /\ call.ret # "panic"
        /\ should_terminate
        /\ InFlight = {}) => call.ret = "Stop"

\* pending_pairing entries of a game between a and b
PendingBetween(a, b) ==
    {id \in DOMAIN pending_pairing :
        pending_pairing[id].engines \in {<<a, b>>, <<b, a>>}}

\* C29: after every result posting, with each ticket posted at most once and
\* siblings in swapped engine order, for all engines a # b the game count of
\* wdl_board[(a, b)] is twice the pair count of penta_board[(a, b)] plus the
\* number of pending_pairing entries of a and b, and pending_pairing never
\* holds an id together with its sibling.
C29_SnapshotConsistent ==
    (~panicked /\ WellPaired) =>
        /\ \A a \in Engines : \A b \in Engines \ {a} :
               WdlGameCount(GetOr(wdl_board, <<a, b>>, WdlDefault))
                   = 2 * pair_count(GetOr(penta_board, <<a, b>>, PentaDefault))
                       + Cardinality(PendingBetween(a, b))
        /\ \A id \in DOMAIN pending_pairing : Sibling(id) \notin DOMAIN pending_pairing

\* three results between engines 0 and 1, the third posted before its sibling
\* and out of ticket order: one pair tallied, one result pending
C29_Witness ==
    /\ ~panicked /\ WellPaired /\ reordered
    /\ call.op = "match_complete"
    /\ WdlGameCount(GetOr(wdl_board, <<1, 0>>, WdlDefault)) = 3
    /\ pair_count(GetOr(penta_board, <<1, 0>>, PentaDefault)) = 1
    /\ DOMAIN pending_pairing = {3}

\* C30: a complete line that is in read_buf when read_with_timeout begins is
\* delivered to the callback without a further byte from the child: a call
\* does not return Timeout with a complete line in read_buf.
C30_BufferedLineDelivered ==
    (engine.pc = "idle" /\ engine.read_ret = "Timeout") =>
        memchr_newline(engine.read_buf) = 0


(***************************************************************************)
(* Tournament::match_complete for StatsWrapper and the inner tournament.   *)
(***************************************************************************)
\* C31: every call of match_complete that returns hands its result to the
\* match_complete of the inner tournament exactly once, with should_terminate
\* set or not, and returns Stop whenever the inner tournament returned Stop.
C31_InnerGetsEveryResult ==
    [][CompleteStep =>
        LET id == StepId
        IN  /\ call'.op = "match_complete"
            /\ call'.inner_result = <<[id |-> id, engines |-> tickets[id + 1],
                                       winner |-> completed'[id]]>>
            /\ Len(call'.inner_state) = 1
            /\ call'.inner_state = <<"Stop">> => call'.ret = "Stop"]_vars

\* a result arrived with should_terminate set and other tickets in flight,
\* it was handed to the inner tournament, and the Stop returned is that of
\* the inner tournament
C31_Witness ==
    /\ call.op = "match_complete" /\ call.terminating
    /\ InFlight # {}
    /\ ~match_completete_should_terminate(should_terminate, match_ticket_count,
                                          match_complete_count)
    /\ Len(call.inner_result) = 1
    /\ call.inner_result[1].id \in CompletedIds
    /\ call.inner_state = <<"Stop">>
    /\ call.ret = "Stop"

====
